---- MODULE Spec2Model ----
(***************************************************************************)
(* Model of the error-classification chain of arvo-health/kit:             *)
(* domain errors (Error), validation errors (ValidationErrors),            *)
(* NewResponseError, NewHTTPError and its helpers, the Fiber ErrorHandler  *)
(* and ParseRequestBody.                                                   *)
(*                                                                         *)
(* Strings that the code concatenates or formats are modelled as sequences *)
(* of tokens, so that concatenation is \o and "contains" is a contiguous   *)
(* sub-sequence.  Codes and slugs, which are only compared, are strings.   *)
(*                                                                         *)
(* A Go error value is modelled by its unwrap chain: a sequence of nodes,  *)
(* outermost first; errors.Unwrap is Tail and the nil error is <<>>.       *)
(***************************************************************************)
EXTENDS Integers, Sequences, FiniteSets, TLC

\* ------------------------------------------------------------------ bounds

\* Longest unwrap chain of an input error.
MaxDepth == 3

\* ------------------------------------------------------- program constants

StatusBadRequest == 400
StatusUnauthorized == 401
StatusForbidden == 403
StatusNotFound == 404
StatusConflict == 409
StatusUnprocessableEntity == 422
StatusInternalServerError == 500

\* The fixed public message of an UNKNOWN ResponseError.
UnknownMessage == <<"Ocorreu um erro inesperado. Tente novamente mais tarde ou contate o administrador.">>

\* ------------------------------------------------------------ error values

Nil == <<>>

Node(kind, code, status, msg, args, details) ==
    [kind |-> kind, code |-> code, status |-> status, msg |-> msg,
     args |-> args, details |-> details]

\* errors.New(text)
ErrorsNew(text) == << Node("plain", "", 0, text, <<>>, <<>>) >>

\* fmt.Errorf(prefix + ": %w", inner)
Errorf(prefix, inner) == << Node("wrap", "", 0, prefix, <<>>, <<>>) >> \o inner

\* fiber.NewError(code, message)
FiberNewError(code, message) == << Node("fiber", "", code, message, <<>>, <<>>) >>

\* kit.NewValidationErrors(message, validations...)
NewValidationErrors(message, validations) ==
    << Node("validation", "", 0, message, <<>>, validations) >>

\* ValidationErrors.Validations, on the node
Validations(n) == n.details

\* ValidationErrors.Error, on the node
ValidationErrorsError(n) == n.msg

\* kit.NewErrorf(code, format, args...)
NewErrorf(code, format, args) == << Node("domain", code, 0, format, args, <<>>) >>

\* errors.As(err, &target) for a target of the given kind: the position of the
\* first node of that kind in the unwrap chain, 0 when there is none.
As(err, kind) ==
    IF \E i \in 1..Len(err) : err[i].kind = kind
    THEN CHOOSE i \in 1..Len(err) :
            /\ err[i].kind = kind
            /\ \A j \in 1..(i-1) : err[j].kind # kind
    ELSE 0

\* Error.WithArgs
WithArgs(e, args) == << [Head(e) EXCEPT !.args = @ \o args] >> \o Tail(e)

\* Error.WithDetails
WithDetails(e, details) == << [Head(e) EXCEPT !.details = details] >> \o Tail(e)

\* WrapCause that returns early on a nil error and leaves the cause in place.
WrapCauseIgnoresNil(e, err) ==
    LET i == As(err, "validation")
    IN  IF err = Nil THEN e
        ELSE << [Head(e) EXCEPT !.details = IF i # 0 THEN Validations(err[i]) ELSE @] >>
                \o err

\* Error.WrapCause
WrapCause(e, err) ==
    LET i == As(err, "validation")
    IN  << [Head(e) EXCEPT !.details = IF i # 0 THEN Validations(err[i]) ELSE @] >> \o err

\* fmt.Sprintf(format, args...) with %s verbs: each verb takes the next
\* argument, a verb without argument prints %!s(MISSING), arguments left over
\* are reported in a trailing %!(EXTRA type=value, ...); every argument of
\* the model is a string.
RECURSIVE ExtraArgs(_)
ExtraArgs(args) ==
    IF Len(args) = 1 THEN <<"string=", Head(args)>>
    ELSE <<"string=", Head(args), ", ">> \o ExtraArgs(Tail(args))

RECURSIVE SprintfFrom(_, _)
SprintfFrom(format, args) ==
    IF format = <<>>
    THEN IF args = <<>> THEN <<>>
         ELSE <<"%!(EXTRA ">> \o ExtraArgs(args) \o <<")">>
    ELSE IF Head(format) = "%s"
         THEN IF args = <<>>
              THEN <<"%!s(MISSING)">> \o SprintfFrom(Tail(format), args)
              ELSE << Head(args) >> \o SprintfFrom(Tail(format), Tail(args))
         ELSE << Head(format) >> \o SprintfFrom(Tail(format), args)

Sprintf(format, args) == SprintfFrom(format, args)

\* Error.String, on the node
String(n) == Sprintf(n.msg, n.args)

\* The Error() method of an error value (never called on nil).
RECURSIVE Error(_)
Error(err) ==
    LET n == Head(err) IN
    CASE n.kind = "plain"      -> n.msg
      [] n.kind = "wrap"       -> n.msg \o <<": ">> \o Error(Tail(err))
      [] n.kind = "fiber"      -> n.msg
      [] n.kind = "http"       -> n.msg
      [] n.kind = "validation" -> ValidationErrorsError(n)
      [] n.kind = "domain"     ->
            IF Tail(err) = Nil THEN String(n)
            ELSE String(n) \o <<": ">> \o Error(Tail(err))

\* Error.Cause, for the domain error at the head of e
Cause(e) == IF Tail(e) = Nil THEN <<>> ELSE Error(Tail(e))

\* Error.Unwrap, for the domain error at the head of e
Unwrap(e) == Tail(e)

\* Error.Code, for the domain error at the head of e
Code(e) == Head(e).code

\* ------------------------------------------------------------ NewHTTPError

\* NewHTTPError without the default for an empty slug.
NewHTTPErrorNoSlugDefault(status, slug, err) ==
    LET st == IF status = 0 THEN 500 ELSE status
        er == IF err = Nil THEN ErrorsNew(<<"unknown error">>) ELSE err
        i  == As(er, "validation")
        details == IF i # 0 THEN Validations(er[i]) ELSE <<>>
    IN  Node("http", slug, st, Error(er), <<>>, details)

\* NewHTTPError that also copies the detail list of a domain error.
NewHTTPErrorDomainDetails(status, slug, err) ==
    LET st == IF status = 0 THEN 500 ELSE status
        sl == IF slug = "" THEN "unknown-error" ELSE slug
        er == IF err = Nil THEN ErrorsNew(<<"unknown error">>) ELSE err
        i  == As(er, "validation")
        d  == As(er, "domain")
        details == IF i # 0 THEN Validations(er[i])
                   ELSE IF d # 0 THEN er[d].details ELSE <<>>
    IN  Node("http", sl, st, Error(er), <<>>, details)

NewHTTPError(status, slug, err) ==
    LET st == IF status = 0 THEN 500 ELSE status
        sl == IF slug = "" THEN "unknown-error" ELSE slug
        er == IF err = Nil THEN ErrorsNew(<<"unknown error">>) ELSE err
        i  == As(er, "validation")
        details == IF i # 0 THEN Validations(er[i]) ELSE <<>>
    IN  Node("http", sl, st, Error(er), <<>>, details)

HTTPInternalServerError(err) == NewHTTPError(StatusInternalServerError, "unknown-error", err)
HTTPUnauthorizedError(err) == NewHTTPError(StatusUnauthorized, "unauthorized", err)
HTTPForbiddenError(slug, err) == NewHTTPError(StatusForbidden, slug, err)
HTTPBadRequestError(slug, err) == NewHTTPError(StatusBadRequest, slug, err)
HTTPUnprocessableEntityError(slug, err) == NewHTTPError(StatusUnprocessableEntity, slug, err)
HTTPConflictError(slug, err) == NewHTTPError(StatusConflict, slug, err)
HTTPNotFoundError(slug, err) == NewHTTPError(StatusNotFound, slug, err)

\* -------------------------------------------------------- NewResponseError

\* NewResponseError with the two errors.As tests in the other order.
NewResponseErrorValidationFirst(status, err) ==
    LET d == As(err, "domain")
        v == As(err, "validation")
    IN  IF v # 0
        THEN [Status |-> status, Code |-> "VALIDATION",
              Message |-> ValidationErrorsError(err[v]),
              Details |-> Validations(err[v]), Cause |-> <<>>, err |-> err]
        ELSE IF d # 0
        THEN LET e == SubSeq(err, d, Len(err))
             IN  [Status |-> status, Code |-> Head(e).code, Message |-> String(Head(e)),
                  Details |-> Head(e).details, Cause |-> Cause(e), err |-> err]
        ELSE [Status |-> status, Code |-> "UNKNOWN", Message |-> UnknownMessage,
              Details |-> <<>>, Cause |-> Error(err), err |-> err]

\* NewResponseError that takes e.Error() instead of e.String() as the message.
NewResponseErrorCauseInMessage(status, err) ==
    LET d == As(err, "domain")
        v == As(err, "validation")
    IN  IF d # 0
        THEN LET e == SubSeq(err, d, Len(err))
             IN  [Status |-> status, Code |-> Head(e).code, Message |-> Error(e),
                  Details |-> Head(e).details, Cause |-> Cause(e), err |-> err]
        ELSE IF v # 0
        THEN [Status |-> status, Code |-> "VALIDATION",
              Message |-> ValidationErrorsError(err[v]),
              Details |-> Validations(err[v]), Cause |-> <<>>, err |-> err]
        ELSE [Status |-> status, Code |-> "UNKNOWN", Message |-> UnknownMessage,
              Details |-> <<>>, Cause |-> Error(err), err |-> err]

\* NewResponseError whose fallback takes the error's text as the message.
NewResponseErrorLeaky(status, err) ==
    LET d == As(err, "domain")
        v == As(err, "validation")
    IN  IF d # 0
        THEN LET e == SubSeq(err, d, Len(err))
             IN  [Status |-> status, Code |-> Head(e).code, Message |-> String(Head(e)),
                  Details |-> Head(e).details, Cause |-> Cause(e), err |-> err]
        ELSE IF v # 0
        THEN [Status |-> status, Code |-> "VALIDATION",
              Message |-> ValidationErrorsError(err[v]),
              Details |-> Validations(err[v]), Cause |-> <<>>, err |-> err]
        ELSE [Status |-> status, Code |-> "UNKNOWN", Message |-> Error(err),
              Details |-> <<>>, Cause |-> Error(err), err |-> err]

NewResponseError(status, err) ==
    LET d == As(err, "domain")
        v == As(err, "validation")
    IN  IF d # 0
        THEN LET e == SubSeq(err, d, Len(err))
             IN  [Status |-> status, Code |-> Head(e).code, Message |-> String(Head(e)),
                  Details |-> Head(e).details, Cause |-> Cause(e), err |-> err]
        ELSE IF v # 0
        THEN [Status |-> status, Code |-> "VALIDATION",
              Message |-> ValidationErrorsError(err[v]),
              Details |-> Validations(err[v]), Cause |-> <<>>, err |-> err]
        ELSE [Status |-> status, Code |-> "UNKNOWN", Message |-> UnknownMessage,
              Details |-> <<>>, Cause |-> Error(err), err |-> err]

\* ------------------------------------------------------------ ErrorHandler

InvalidUTF8 == { "\\xff" }

ReplacementChar == "\\ufffd"

\* encoding/json on either side coerces a string to valid UTF-8: every
\* invalid byte becomes the replacement character.
CoerceToken(t) == IF t \in InvalidUTF8 THEN ReplacementChar ELSE t

CoerceString(s) == [i \in 1..Len(s) |-> CoerceToken(s[i])]

MarshalHTTPErrorOmitsDetails(h) ==
    [code |-> CoerceToken(h.code), message |-> CoerceString(h.msg),
     status_code |-> h.status]

\* encoding/json of an HTTPError: code, message, status_code, and details
\* unless empty (omitempty).
MarshalHTTPError(h) ==
    IF Len(h.details) > 0
    THEN [code |-> CoerceToken(h.code), message |-> CoerceString(h.msg),
          details |-> CoerceString(h.details), status_code |-> h.status]
    ELSE [code |-> CoerceToken(h.code), message |-> CoerceString(h.msg),
          status_code |-> h.status]

\* json.Unmarshal into an HTTPError: each key fills the field its tag names,
\* an absent "details" leaves Details nil.
UnmarshalHTTPError(wire) ==
    Node("http", CoerceToken(wire.code), wire.status_code, CoerceString(wire.message),
         <<>>,
         IF "details" \in DOMAIN wire THEN CoerceString(wire.details) ELSE <<>>)

\* c.Status(status).JSON(Map{"error": h})
WriteJSON(status, h) == [status |-> status, error |-> MarshalHTTPError(h)]

\* The level of the record logFiberError writes.
FiberLogLevel(code) == IF code >= StatusInternalServerError THEN "ERROR" ELSE "WARN"

\* logFiberError: the records the handler adds to the log sink.
LogFiberError(err) ==
    LET f == As(err, "fiber")
    IN  IF f # 0
        THEN << [level |-> FiberLogLevel(err[f].status),
                 msg |-> <<"request failed: ">> \o err[f].msg] >>
        ELSE <<>>

\* ErrorHandlerError with a type assertion in place of errors.As: an HTTPError
\* is recognised only when it is the error itself.
ErrorHandlerErrorNoUnwrap(err) ==
    LET f == As(err, "fiber")
    IN  IF f # 0
        THEN Node("http", "fiber-err", err[f].status,
                  err[f].msg \o <<": ">> \o Error(SubSeq(err, f, Len(err))), <<>>, <<>>)
        ELSE IF Head(err).kind = "http" THEN Head(err)
        ELSE HTTPInternalServerError(err)

\* ErrorHandlerError that answers a bare validation error with a 400.
ErrorHandlerErrorValidation400(err) ==
    LET f == As(err, "fiber")
        h == As(err, "http")
    IN  IF f # 0
        THEN Node("http", "fiber-err", err[f].status,
                  err[f].msg \o <<": ">> \o Error(SubSeq(err, f, Len(err))), <<>>, <<>>)
        ELSE IF h # 0 THEN err[h]
        ELSE IF As(err, "validation") # 0 THEN HTTPBadRequestError("request-validation", err)
        ELSE HTTPInternalServerError(err)

\* The *HTTPError the handler serializes for err.
ErrorHandlerError(err) ==
    LET f == As(err, "fiber")
        h == As(err, "http")
    IN  IF f # 0
        THEN Node("http", "fiber-err", err[f].status,
                  err[f].msg \o <<": ">> \o Error(SubSeq(err, f, Len(err))), <<>>, <<>>)
        ELSE IF h # 0 THEN err[h]
        ELSE HTTPInternalServerError(err)

\* kit.ErrorHandler(logger)(c, err): the response written.
ErrorHandler(err) ==
    LET e == ErrorHandlerError(err) IN WriteJSON(e.status, e)

\* The earlier revision of ErrorHandler, without the fiber.Error branch.
ErrorHandlerPlain(err) ==
    LET h == As(err, "http")
        e == IF h # 0 THEN err[h] ELSE HTTPInternalServerError(err)
    IN  WriteJSON(e.status, e)

\* -------------------------------------------------------- ParseRequestBody

\* ParseRequestBody that re-creates the validation error from its text.
ParseRequestBodyDropsDetails(parseErr, valErr) ==
    IF parseErr # Nil
    THEN [err |-> << HTTPBadRequestError("bad-input", parseErr) >>, calls |-> 0]
    ELSE IF valErr # Nil
    THEN IF As(valErr, "validation") # 0
         THEN [err |-> << HTTPBadRequestError("request-validation",
                                              ErrorsNew(Error(valErr))) >>, calls |-> 1]
         ELSE [err |-> valErr, calls |-> 1]
    ELSE [err |-> Nil, calls |-> 1]

\* ParseRequestBody that runs the validator before looking at the parse error.
ParseRequestBodyValidatesAnyway(parseErr, valErr) ==
    IF parseErr # Nil
    THEN [err |-> << HTTPBadRequestError("bad-input", parseErr) >>, calls |-> 1]
    ELSE IF valErr # Nil
    THEN IF As(valErr, "validation") # 0
         THEN [err |-> << HTTPBadRequestError("request-validation", valErr) >>, calls |-> 1]
         ELSE [err |-> valErr, calls |-> 1]
    ELSE [err |-> Nil, calls |-> 1]

\* kit.ParseRequestBody(out, c, v): parseErr is what c.BodyParser returns and
\* valErr what v.StructTranslated returns if it is called.  The result is the
\* error returned and the number of calls made to the validator.
ParseRequestBody(parseErr, valErr) ==
    IF parseErr # Nil
    THEN [err |-> << HTTPBadRequestError("bad-input", parseErr) >>, calls |-> 0]
    ELSE IF valErr # Nil
    THEN IF As(valErr, "validation") # 0
         THEN [err |-> << HTTPBadRequestError("request-validation", valErr) >>, calls |-> 1]
         ELSE [err |-> valErr, calls |-> 1]
    ELSE [err |-> Nil, calls |-> 1]

\* ---------------------------------------------------------- input universe

Texts == { <<"boom">>, <<"db: connection refused">> }

ValidationInputs ==
    { NewValidationErrors(<<"validation failed">>, <<>>),
      NewValidationErrors(<<"validation failed">>,
                          <<"Name is required", "Email must be valid">>) }

HTTPInputs ==
    { << HTTPConflictError("some-code", ErrorsNew(<<"any error message">>)) >>,
      << HTTPUnprocessableEntityError("validation",
            NewValidationErrors(<<"validation error">>, <<"field1 is required">>)) >> }

FiberInputs ==
    { FiberNewError(StatusNotFound, <<"Not Found">>),
      FiberNewError(StatusInternalServerError, <<"Internal Server Error">>) }

DomainInputs ==
    { NewErrorf("BAD_INPUT", <<"bad input">>, <<>>),
      WithArgs(NewErrorf("USER_NOT_FOUND", <<"user with ID ", "%s", " not found">>, <<>>),
               <<"203">>),
      WithDetails(NewErrorf("CUSTOM_ERROR", <<"a custom error occurred">>, <<>>),
                  <<"detail1", "detail2">>) }

\* Errors that have no Unwrap, or whose cause is nil.
Leaves ==
    { ErrorsNew(t) : t \in Texts } \cup ValidationInputs \cup HTTPInputs
        \cup FiberInputs \cup DomainInputs

\* Non-nil errors whose unwrap chain has exactly d nodes.
RECURSIVE ErrorsOfDepth(_)
ErrorsOfDepth(d) ==
    IF d = 1 THEN Leaves
    ELSE LET inner == ErrorsOfDepth(d - 1)
         IN  { WrapCause(e, c) : e \in DomainInputs, c \in inner }
                \cup { Errorf(<<"handler">>, c) : c \in inner }

Errors == UNION { ErrorsOfDepth(d) : d \in 1..MaxDepth }

StatusInputs == { 0, StatusBadRequest, StatusUnprocessableEntity, StatusInternalServerError }

SlugInputs == { "", "user-not-found" }

\* ------------------------------------------------------ logging middleware

StatusOK == 200

CtxKeyUserEmail == "kit.user_email"
CtxKeyUserCompany == "kit.user_company"
CtxKeyUserCompanyCategory == "kit.user_company_category"
CtxKeyUserPermissions == "kit.user_permissions"

CtxKeys ==
    { CtxKeyUserEmail, CtxKeyUserCompany, CtxKeyUserCompanyCategory,
      CtxKeyUserPermissions }

\* What c.Locals(key) and c.Context().Value(key) hold: nil when nothing was
\* stored under the key, else a value with its dynamic type.
CtxNil == [type |-> "nil", val |-> <<>>]
CtxString(text) == [type |-> "string", val |-> text]
CtxInt(digits) == [type |-> "int", val |-> digits]
CtxStrings(items) == [type |-> "[]string", val |-> items]

\* getContextValue[string](c, key, defaultValue)
GetContextValue(ctx, key, defaultValue) ==
    IF ctx[key].type = "string" THEN ctx[key].val ELSE defaultValue

\* strings.Join(items, sep) over tokens
RECURSIVE JoinTokens(_, _)
JoinTokens(items, sep) ==
    IF Len(items) = 0 THEN <<>>
    ELSE IF Len(items) = 1 THEN <<items[1]>>
    ELSE <<items[1], sep>> \o JoinTokens(Tail(items), sep)

\* fmt.Sprintf("%v", v)
SprintfV(v) ==
    CASE v.type = "nil"      -> <<"<nil>">>
      [] v.type = "[]string" -> <<"[">> \o JoinTokens(v.val, " ") \o <<"]">>
      [] OTHER               -> v.val

\* The user group of the per-request record.
UserAttributes(ctx) ==
    [email            |-> GetContextValue(ctx, CtxKeyUserEmail, <<"unknown">>),
     company          |-> GetContextValue(ctx, CtxKeyUserCompany, <<"unknown">>),
     company_category |-> GetContextValue(ctx, CtxKeyUserCompanyCategory, <<"unknown">>),
     permissions      |-> SprintfV(ctx[CtxKeyUserPermissions])]

\* The configuration LoggerMiddleware passes to LoggerMiddlewareWithConfig.
DefaultConfig ==
    [DefaultLevel |-> "INFO", WithUserAgent |-> FALSE, WithRequestHeader |-> FALSE,
     WithResponseHeader |-> FALSE]

\* The identifier a fresh uuid would be when the header carries none.
RequestIDAlwaysFresh(header, fresh) == fresh

\* requestID := c.Get("X-Request-Id"); if empty, uuid.New().String()
RequestID(header, fresh) == IF header = "" THEN fresh ELSE header

\* The level chosen from whether the handler failed, not from the status.
RequestLevelByError(config, status, text) ==
    IF text # <<>> THEN "ERROR" ELSE config.DefaultLevel

\* The level of the per-request record.
RequestLevel(config, status, text) ==
    IF status >= StatusInternalServerError THEN "ERROR"
    ELSE IF status >= StatusBadRequest THEN "WARN"
    ELSE config.DefaultLevel

\* The message of the per-request record.
RequestMessage(routeName, status, text) ==
    LET prefix == IF routeName # <<>> THEN routeName \o <<": ">> ELSE <<>>
    IN  IF status >= StatusBadRequest
        THEN prefix \o <<"request failed: ">> \o text
        ELSE prefix \o <<"request succeeded">>

\* The record logger.LogAttrs writes at the end of the middleware.
\* A header name is the sequence of its characters.
HiddenRequestHeaders ==
    { << "a", "u", "t", "h", "o", "r", "i", "z", "a", "t", "i", "o", "n" >>,
      << "c", "o", "o", "k", "i", "e" >>,
      << "s", "e", "t", "-", "c", "o", "o", "k", "i", "e" >>,
      << "x", "-", "a", "u", "t", "h", "-", "t", "o", "k", "e", "n" >>,
      << "x", "-", "c", "s", "r", "f", "-", "t", "o", "k", "e", "n" >>,
      << "x", "-", "x", "s", "r", "f", "-", "t", "o", "k", "e", "n" >> }

HiddenResponseHeaders == { << "s", "e", "t", "-", "c", "o", "o", "k", "i", "e" >> }

RequestIDHeaderKey == << "X", "-", "R", "e", "q", "u", "e", "s", "t", "-", "I", "d" >>

UserAgentKey == << "U", "s", "e", "r", "-", "A", "g", "e", "n", "t" >>

ContentTypeKey == << "C", "o", "n", "t", "e", "n", "t", "-", "T", "y", "p", "e" >>

UpperCase ==
    << "A", "B", "C", "D", "E", "F", "G", "H", "I", "J", "K", "L", "M",
       "N", "O", "P", "Q", "R", "S", "T", "U", "V", "W", "X", "Y", "Z" >>

LowerCase ==
    << "a", "b", "c", "d", "e", "f", "g", "h", "i", "j", "k", "l", "m",
       "n", "o", "p", "q", "r", "s", "t", "u", "v", "w", "x", "y", "z" >>

\* strings.ToLower: every upper-case letter becomes its lower-case letter,
\* every other character stays.
ToLowerChar(c) ==
    IF \E i \in DOMAIN UpperCase : UpperCase[i] = c
    THEN LowerCase[CHOOSE i \in DOMAIN UpperCase : UpperCase[i] = c]
    ELSE c

ToLower(k) == [i \in 1..Len(k) |-> ToLowerChar(k[i])]

\* The headers compared with the hidden names as they are, without ToLower.
VisibleHeadersCaseSensitive(headers, hidden) ==
    [k \in { h \in DOMAIN headers : h \notin hidden } |-> headers[k]]

\* The loop over the headers: those whose lower-cased name is hidden are
\* skipped, the others become attributes of the header group.
VisibleHeaders(headers, hidden) ==
    [k \in { h \in DOMAIN headers : ToLower(h) \notin hidden } |-> headers[k]]

\* c.Get(key) and the other lookups by name: the value of the header of that
\* name, whatever its casing, "" when there is none.
HeaderGet(headers, key) ==
    IF \E k \in DOMAIN headers : ToLower(k) = ToLower(key)
    THEN headers[CHOOSE k \in DOMAIN headers : ToLower(k) = ToLower(key)]
    ELSE ""

Header(key, value) == [k \in {key} |-> value]

\* c.Set(key, value) for every header of sets, on the headers so far.
SetHeaders(headers, sets) ==
    [k \in DOMAIN headers \cup DOMAIN sets |->
        IF k \in DOMAIN sets THEN sets[k] ELSE headers[k]]

\* kit.AddCustomAttributes(c, attr): the attributes stored in the request
\* context, the empty sequence when nothing is stored.
AddCustomAttributes(v, attr) == Append(v, attr)

\* c.Context().UserAgent()
UserAgent(headers) == HeaderGet(headers, UserAgentKey)

\* The attributes of the request group that depend on the configuration.
RequestAttributes(config, reqHeaders) ==
    (IF config.WithRequestHeader
     THEN [header |-> VisibleHeaders(reqHeaders, HiddenRequestHeaders)]
     ELSE <<>>)
    @@ (IF config.WithUserAgent
        THEN [x \in {"user-agent"} |-> UserAgent(reqHeaders)]
        ELSE <<>>)

\* The attributes of the response group.
ResponseAttributes(config, status, respHeaders) ==
    [status |-> status]
    @@ (IF config.WithResponseHeader
        THEN [header |-> VisibleHeaders(respHeaders, HiddenResponseHeaders)]
        ELSE <<>>)

\* The record of the request: the attributes the middleware builds and,
\* after them, the custom attributes stored in the request context, which
\* may repeat a key of the former.
RequestRecord(config, id, status, text, routeName, ctx, reqHeaders, respHeaders, custom) ==
    [level      |-> RequestLevel(config, status, text),
     msg        |-> RequestMessage(routeName, status, text),
     request_id |-> id,
     request    |-> RequestAttributes(config, reqHeaders),
     response   |-> ResponseAttributes(config, status, respHeaders),
     user       |-> UserAttributes(ctx),
     custom     |-> custom]

\* The error c.JSON returns when the encoder fails.
JSONError == ErrorsNew(<<"json: encoding failed">>)

\* errHandler(c, err), with kit.ErrorHandler(logger) installed in the app:
\* the status it sets, the records it logs and the error it returns.
\* fails: the JSON encoder returned an error.
RunErrorHandler(err, fails) ==
    [status   |-> ErrorHandlerError(err).status,
     logs     |-> LogFiberError(err),
     ret      |-> IF fails THEN JSONError ELSE Nil]

\* The status left on the response without the SendStatus(500) fallback.
StatusAfterErrorNoFallback(err, fails) == RunErrorHandler(err, fails).status

\* The status of the response after the middleware's error block:
\* if err = errHandler(c, err); err != nil { c.SendStatus(500) }
StatusAfterError(err, fails) ==
    IF RunErrorHandler(err, fails).ret # Nil
    THEN StatusInternalServerError
    ELSE RunErrorHandler(err, fails).status

\* ------------------------------------------------------- validation errors

\* m[k] = v on a Go map
MapSet(m, k, v) == [x \in DOMAIN m \cup {k} |-> IF x = k THEN v ELSE m[x]]

\* for _, v := range validations { vs[v.Field] = v.Validation }
RECURSIVE MapSetAll(_, _)
MapSetAll(m, validations) ==
    IF Len(validations) = 0 THEN m
    ELSE MapSetAll(MapSet(m, Head(validations).Field, Head(validations).Validation),
                   Tail(validations))

\* make(map[string]string)
EmptyMap == [x \in {} |-> ""]

\* NewValidationError that forgets the validations it is given.
NewValidationErrorNoInitial(message, validations) ==
    [message |-> message, validations |-> EmptyMap, err |-> Nil, tmpField |-> ""]

\* kit.NewValidationError(message, validations...)
NewValidationError(message, validations) ==
    [message |-> message, validations |-> MapSetAll(EmptyMap, validations),
     err |-> Nil, tmpField |-> ""]

\* ValidationError.Field(field)
Field(e, field) == [e EXCEPT !.tmpField = field]

\* ValidationError.Err(validation)
Err(e, validation) == [e EXCEPT !.validations = MapSet(@, e.tmpField, validation)]

\* ValidationError.AddValidation(field, validation)
AddValidation(e, field, validation) ==
    [e EXCEPT !.validations = MapSet(@, field, validation)]

\* ValidationError.AddValidations(validations...)
AddValidations(e, validations) ==
    [e EXCEPT !.validations = MapSetAll(@, validations)]

\* ValidationError.HasValidations()
HasValidations(e) == Cardinality(DOMAIN e.validations) > 0

\* ValidationError.Wrap(err)
Wrap(e, err) == [e EXCEPT !.err = err]

\* ValidationErrors.Add(validations...): appends to the list
Add(ve, validations) ==
    << [ve[1] EXCEPT !.details = @ \o validations] >> \o Tail(ve)

\* ValidationErrors.HasValidations()
ValidationErrorsHasValidations(ve) == Len(Validations(ve[1])) > 0

\* ------------------------------------------------- responseerror registry

\* In package responseerror an error value is a tree: its own fields and,
\* in sub, what its Unwrap method returns (one error, the members of a
\* join, or nothing). A *ResponseError is a node of kind "response" whose
\* msg, vals and status are its message, details and statusCode. Codes are
\* sequences of characters.
Tree(kind, code, category, msg, vals, status, sub) ==
    [kind |-> kind, code |-> code, category |-> category, msg |-> msg,
     vals |-> vals, status |-> status, sub |-> sub]

\* The nil error.
NilTree == Tree("nil", <<>>, "", <<>>, EmptyMap, 0, <<>>)

\* errors.New(text)
TreeNew(text) == Tree("plain", <<>>, "", text, EmptyMap, 0, <<>>)

\* fmt.Errorf(prefix + ": %w", inner)
TreeErrorf(prefix, inner) == Tree("wrap", <<>>, "", prefix, EmptyMap, 0, <<inner>>)

\* errors.Join(members...), no member nil
Join(members) == Tree("join", <<>>, "", <<>>, EmptyMap, 0, members)

\* validator.NewError(message, validations...).Wrap(inner); inner may be nil
TreeValidationError(message, validations, inner) ==
    Tree("validation", <<>>, "", message, MapSetAll(EmptyMap, validations), 0,
         IF inner = NilTree THEN <<>> ELSE <<inner>>)

\* The Error() method of a non-nil error.
RECURSIVE TreeError(_)
TreeError(e) ==
    CASE e.kind = "plain"      -> e.msg
      [] e.kind = "wrap"       -> e.msg \o <<": ">> \o TreeError(e.sub[1])
      [] e.kind = "join"       ->
            IF Len(e.sub) = 1 THEN TreeError(e.sub[1])
            ELSE TreeError(e.sub[1]) \o <<"\n">>
                    \o TreeError(Join(Tail(e.sub)))
      [] e.kind = "validation" ->
            IF e.sub = <<>> THEN e.msg
            ELSE e.msg \o <<": ">> \o TreeError(e.sub[1])
      [] e.kind = "response"   -> <<"[">> \o e.code \o <<"] ">> \o e.msg

\* errors.Unwrap(err): what an Unwrap() error method returns, nil for an
\* error without one (a join has Unwrap() []error).
TreeUnwrap(e) ==
    IF e.kind \in {"wrap", "validation", "response"} /\ e.sub # <<>>
    THEN e.sub[1]
    ELSE NilTree

\* The nodes errors.As visits, in the order it visits them.
RECURSIVE PreOrder(_)
RECURSIVE PreOrderAll(_)
PreOrder(e) == <<e>> \o PreOrderAll(e.sub)
PreOrderAll(es) ==
    IF es = <<>> THEN <<>> ELSE PreOrder(Head(es)) \o PreOrderAll(Tail(es))

\* errors.As(err, &target) for a target the nodes of the given kind match:
\* the first such node, NilTree when there is none.
TreeAs(e, kind) ==
    LET nodes == PreOrder(e)
        hits == { i \in 1..Len(nodes) : nodes[i].kind = kind }
    IN  IF hits = {} THEN NilTree
        ELSE nodes[CHOOSE i \in hits : \A j \in hits : i <= j]

\* deriveCategoryFromCode
DeriveCategoryFromCode(code) ==
    IF Len(code) < 5 THEN "unknown"
    ELSE CASE code[5] = "V" -> "validation"
           [] code[5] = "B" -> "business"
           [] code[5] = "N" -> "notfound"
           [] code[5] = "R" -> "badrequest"
           [] code[5] = "P" -> "permission"
           [] code[5] = "A" -> "authentication"
           [] code[5] = "I" -> "internal"
           [] code[5] = "E" -> "external"
           [] OTHER         -> "unknown"

\* responseerror.New(err, code, status...): nil for a nil error or an empty
\* code; status holds the variadic arguments.
New(err, code, status) ==
    IF err = NilTree \/ code = <<>> THEN NilTree
    ELSE Tree("response", code, DeriveCategoryFromCode(code), TreeError(err), EmptyMap,
              IF Len(status) > 0 THEN status[1] ELSE StatusInternalServerError,
              <<err>>)

ErrV001 == <<"E", "R", "R", "-", "V", "0", "0", "1">>
ErrI000 == <<"E", "R", "R", "-", "I", "0", "0", "0">>

\* Registry.Add(err, code, status...)
RegistryAdd(registry, err, code, status) ==
    IF New(err, code, status) = NilTree THEN registry
    ELSE [k \in DOMAIN registry \cup {err} |->
            IF k = err THEN New(err, code, status) ELSE registry[k]]

\* What Get finds out about err: details from err's own Validations method,
\* the first join errors.As reaches and its first registered member.
GetDetails(err) == IF err.kind = "validation" THEN err.vals ELSE EmptyMap

JoinedMembers(err) ==
    IF TreeAs(err, "join") = NilTree THEN <<>> ELSE TreeAs(err, "join").sub

FirstRegistered(registry, members) ==
    LET hits == { i \in 1..Len(members) : members[i] \in DOMAIN registry }
    IN  IF hits = {} THEN 0 ELSE CHOOSE i \in hits : \A j \in hits : i <= j

\* The fallback of Get that never answers with the validation default.
GetDefaultInternalOnly(err) == New(err, ErrI000, <<>>)

\* The fallback of Get: a new ResponseError for an error nothing matched.
GetDefault(err) ==
    IF Cardinality(DOMAIN GetDetails(err)) > 0
    THEN [New(err, ErrV001, <<StatusUnprocessableEntity>>) EXCEPT
            !.vals = GetDetails(err)]
    ELSE New(err, ErrI000, <<>>)

\* Registry.Get(err), err non-nil: the registry afterwards (Get writes to
\* the registered ResponseError it returns), the ResponseError returned and
\* where it lives: "err" (found in err's tree), "registry" (the registered
\* object itself), "new", or "panic" for the index out of range at line 74.
Get(registry, err) ==
    LET details == GetDetails(err)
        u == TreeUnwrap(err)
        members == JoinedMembers(err)
        i == FirstRegistered(registry, members)
    IN  IF TreeAs(err, "response") # NilTree
        THEN [registry |-> registry, from |-> "err", out |-> TreeAs(err, "response")]
        ELSE IF err \in DOMAIN registry
        THEN LET r == [registry EXCEPT ![err].vals = details]
             IN  [registry |-> r, from |-> "registry", out |-> r[err]]
        ELSE IF u \in DOMAIN registry
        THEN LET r == [registry EXCEPT ![u].msg = TreeError(err), ![u].vals = details]
             IN  [registry |-> r, from |-> "registry", out |-> r[u]]
        ELSE IF i # 0
        THEN IF i + 1 > Len(members)
             THEN [registry |-> registry, from |-> "panic", out |-> NilTree]
             ELSE LET r == [registry EXCEPT
                              ![members[i]].msg = @ \o <<": ">> \o TreeError(members[i + 1]),
                              ![members[i]].vals = details]
                  IN  [registry |-> r, from |-> "registry", out |-> r[members[i]]]
        ELSE [registry |-> registry, from |-> "new", out |-> GetDefault(err)]

\* Which branch of Get answers for err, and the registered error whose
\* ResponseError it returns (NilTree when the answer is not a registered one).
GetMatch(registry, err) ==
    LET u == TreeUnwrap(err)
        members == JoinedMembers(err)
        i == FirstRegistered(registry, members)
    IN  IF TreeAs(err, "response") # NilTree THEN [branch |-> "err", key |-> NilTree]
        ELSE IF err \in DOMAIN registry THEN [branch |-> "direct", key |-> err]
        ELSE IF u \in DOMAIN registry THEN [branch |-> "unwrap", key |-> u]
        ELSE IF i # 0
        THEN IF i + 1 > Len(members) THEN [branch |-> "panic", key |-> NilTree]
             ELSE [branch |-> "joined", key |-> members[i]]
        ELSE [branch |-> "default", key |-> NilTree]

\* The message Get stores in respError.message in the branch taken: the
\* text of err at line 62, and at line 74 the message it loaded followed by
\* ": " and the text of the member after the registered one.
GetNewMessage(registry, err, loaded) ==
    LET members == JoinedMembers(err)
        i == FirstRegistered(registry, members)
    IN  IF GetMatch(registry, err).branch = "unwrap"
        THEN TreeError(err)
        ELSE loaded \o <<": ">> \o TreeError(members[i + 1])

\* A string variable is two words, data and length, stored and loaded one
\* at a time.
AllWords == { "data", "len" }

\* A store that leaves a word that is already set as it is.
StoreWordKeepsFirst(words, w, s) ==
    IF words[w] # "" THEN words ELSE [words EXCEPT ![w] = s]

\* The store, or the load into words, of one word of the string s.
StoreWord(words, w, s) == [words EXCEPT ![w] = s]

\* The bytes of one piece of a message; a piece not listed is one byte.
Bytes(f) ==
    CASE f = "example error" ->
            << "e", "x", "a", "m", "p", "l", "e", " ", "e", "r", "r", "o", "r" >>
      [] f = "not found" ->
            << "n", "o", "t", " ", "f", "o", "u", "n", "d" >>
      [] f = "connection refused" ->
            << "c", "o", "n", "n", "e", "c", "t", "i", "o", "n", " ", "r", "e", "f", "u", "s", "e", "d" >>
      [] f = "handler" ->
            << "h", "a", "n", "d", "l", "e", "r" >>
      [] f = "invalid input" ->
            << "i", "n", "v", "a", "l", "i", "d", " ", "i", "n", "p", "u", "t" >>
      [] f = "validation failed" ->
            << "v", "a", "l", "i", "d", "a", "t", "i", "o", "n", " ", "f", "a", "i", "l", "e", "d" >>
      [] f = ": " ->
            << ":", " " >>
      [] f = "] " ->
            << "]", " " >>
      [] OTHER -> << f >>

\* len(m) for a message m.
RECURSIVE MsgLen(_)
MsgLen(m) == IF m = << >> THEN 0 ELSE Len(Bytes(Head(m))) + MsgLen(Tail(m))

\* m[:n], n no more than len(m): the pieces that fit whole, then the bytes
\* of the piece the cut falls in.
RECURSIVE TakeBytes(_, _)
TakeBytes(m, n) ==
    IF n = 0 THEN << >>
    ELSE IF Len(Bytes(Head(m))) <= n
    THEN << Head(m) >> \o TakeBytes(Tail(m), n - Len(Bytes(Head(m))))
    ELSE SubSeq(Bytes(Head(m)), 1, n)

\* The two words of the message m: a pointer to its bytes and its length.
MessageWords(m) == [data |-> m, len |-> m]

\* The string two words make: as many bytes as the length word says, from
\* where the data word points. With the length of a longer message these
\* are the bytes of the message and then the bytes that follow them in
\* memory, each written "\\?".
WordsMessage(words) ==
    LET n == MsgLen(words.len)
    IN  IF n <= MsgLen(words.data) THEN TakeBytes(words.data, n)
        ELSE words.data \o [i \in 1..(n - MsgLen(words.data)) |-> "\\?"]

\* respError.details = details (lines 56, 63 and 75)
GetWriteDetails(registry, err, key) ==
    [registry EXCEPT ![key].vals = GetDetails(err)]

\* (*ResponseError).StatusCode(status): sets the status of e itself and
\* returns e.
StatusCode(e, status) == [e EXCEPT !.status = status]

\* (*ResponseError).Details(details): replaces the details of e itself and
\* returns e.
Details(e, details) == [e EXCEPT !.vals = details]

\* The payload FiberErrorHandler serializes from a ResponseError.
ErrorResponse(r) ==
    [status |-> r.status, code |-> r.code, message |-> r.msg, details |-> r.vals]

\* ------------------------------------------------------------------- state

\* What c.BodyParser can return.
ParseErrInputs ==
    { Nil,
      ErrorsNew(<<"unexpected end of JSON input">>),
      FiberNewError(StatusUnprocessableEntity, <<"Unprocessable Entity">>) }

HelperNames ==
    { "HTTPInternalServerError", "HTTPUnauthorizedError", "HTTPForbiddenError",
      "HTTPBadRequestError", "HTTPUnprocessableEntityError", "HTTPConflictError",
      "HTTPNotFoundError" }

\* The HTTP*Error helper of the given name.
Helper(name, slug, err) ==
    CASE name = "HTTPInternalServerError"      -> HTTPInternalServerError(err)
      [] name = "HTTPUnauthorizedError"        -> HTTPUnauthorizedError(err)
      [] name = "HTTPForbiddenError"           -> HTTPForbiddenError(slug, err)
      [] name = "HTTPBadRequestError"          -> HTTPBadRequestError(slug, err)
      [] name = "HTTPUnprocessableEntityError" -> HTTPUnprocessableEntityError(slug, err)
      [] name = "HTTPConflictError"            -> HTTPConflictError(slug, err)
      [] name = "HTTPNotFoundError"            -> HTTPNotFoundError(slug, err)

VARIABLES
    pc,             \* "ready": waiting for a call; "done": a call has returned
    op,             \* the operation that ran last
    inErr,          \* its error argument (for ParseRequestBody: the validator's answer)
    inStatus,       \* its status argument
    inSlug,         \* its slug argument
    inParseErr,     \* ParseRequestBody: the body parser's answer
    respErr,        \* the ResponseError returned by NewResponseError
    httpErr,        \* the HTTPError returned by NewHTTPError or a helper
    response,       \* the HTTP response written by ErrorHandler
    logRecords,     \* the records ErrorHandler wrote to the log sink
    retErr,         \* the error returned by ParseRequestBody
    validatorCalls  \* the calls ParseRequestBody made to the validator

VARIABLES
    reqHeaderId,          \* the X-Request-Id header of the inbound request
    requestID,            \* the request identifier the middleware settled on
    ctxRequestID,         \* the value stored under CtxKeyRequestID
    respHeaderRequestID,  \* the X-Request-ID header of the response
    loggerRequestID,      \* the request_id of the logger stored under CtxKeyLogger
    userCtx,              \* the user values of the request context
    errmsg,               \* the text of the error c.Next() returned
    mwErr,                \* the error the middleware returns to the framework
    respStatus,           \* c.Response().StatusCode()
    loggedStatus,         \* the status the middleware read for its record
    errHandlerCalls       \* the invocations of the application's error handler

requestVars == << reqHeaderId, requestID, ctxRequestID, respHeaderRequestID,
                  loggerRequestID, userCtx, errmsg, mwErr, respStatus, loggedStatus,
                  errHandlerCalls >>

VARIABLES
    verr,            \* the *ValidationError under construction
    verrs,           \* the *ValidationErrors under construction
    supplied,        \* how many validations it has been given so far
    steps,           \* how many builder calls it has received
    hasValidations   \* what HasValidations() answered

builderVars == << verr, verrs, supplied, steps, hasValidations >>

VARIABLES
    derr,        \* a package-level *Error, nil until it is constructed
    ctorCode,    \* the code NewErrorf was given
    lastCause,   \* the error the latest WrapCause was given
    calls,       \* how many builder calls derr has received
    requests,    \* how many of them were made by request handlers
    reqArg,      \* the argument of the request just served
    outString,   \* what derr.String() answered
    outError,    \* what derr.Error() answered
    outCause,    \* what derr.Cause() answered
    outUnwrap,   \* what errors.Unwrap(derr) answered
    outCode,     \* what derr.Code() answered
    detailsSet   \* whether WithDetails was ever called on derr

domainVars == << derr, ctorCode, lastCause, calls, requests, reqArg, outString,
                 outError, outCause, outUnwrap, outCode, detailsSet >>

VARIABLES
    registry,   \* Registry.registry: registered error -> its *ResponseError
    gets,       \* how many times Get has been called
    inTree,     \* the error Get was given
    getFrom,    \* where the ResponseError Get returned lives
    getOut,     \* the ResponseError Get returned
    registered, \* the registry as the Add calls built it
    setterCalled, \* a caller of Get has called StatusCode or Details on the result
    prevTree,   \* the error the call of Get before this one was given
    prevFrom,   \* where the ResponseError it returned lives
    prevOut     \* the ResponseError it returned, as it was then

registryVars == << registry, gets, inTree, getFrom, getOut, registered, setterCalled,
                  prevTree,
                   prevFrom, prevOut >>

VARIABLES
    cpc,      \* where each of the two concurrent requests is in Get
    cErr,     \* the error each request handles
    cMatch,   \* the branch of Get each request took and the registered error
    cOut,     \* the ResponseError a request got that is not a registered one
    cLoad,    \* the message a request loaded at line 74, before it appends
    cMsg,     \* the two words of the message of each registered ResponseError
    cRead,    \* the words of a message a request has loaded so far
    cTodo,    \* the words of the message it is storing or loading still to do
    cResp     \* the payload each request serialized

concurrentVars == << cpc, cErr, cMatch, cOut, cLoad, cMsg, cRead, cTodo, cResp >>

VARIABLES
    inStruct,       \* the struct value handed to StructTranslated
    outTranslated   \* the error StructTranslated returned

validatorVars == << inStruct, outTranslated >>

VARIABLES
    rtErr,     \* the HTTPError serialized
    wire,      \* its JSON form
    decoded,   \* the HTTPError deserialized from the JSON form
    rtpc       \* how far the round trip has come

roundTripVars == << rtErr, wire, decoded, rtpc >>

VARIABLES
    rpc,          \* where each of the two callers of Field(f).Err(m) is
    rTodo,        \* the words of the string it is storing or reading still to do
    rField,       \* the field each caller names
    rMsg,         \* the message each caller records
    rWords,       \* the two words of tmpField
    rRead,        \* the words of tmpField each caller's Err has read
    rVal,         \* the two words of each value of the validations map
    rInterleaved, \* a caller ran a step between the other's first and last
    rOverlapped   \* a caller ran a step while the other was inside a call

raceVars == << rpc, rTodo, rField, rMsg, rWords, rRead, rVal, rInterleaved, rOverlapped >>

VARIABLES
    config,          \* the Config the middleware was built with
    reqHeaders,      \* the headers of the request
    respHeaders,     \* the headers of the response
    handlerHeaders,  \* the response headers the handlers after the middleware set
    customAttrs      \* the attributes stored with AddCustomAttributes

headerVars == << config, reqHeaders, respHeaders, handlerHeaders, customAttrs >>

\* The variables of the areas modelled further down.
areaVars == << requestVars, builderVars, domainVars, registryVars,
               concurrentVars,
               validatorVars,
               roundTripVars,
               raceVars,
               headerVars >>

vars == << pc, op, inErr, inStatus, inSlug, inParseErr, respErr, httpErr, response,
           logRecords, retErr, validatorCalls, areaVars >>

NoResponseError ==
    [Status |-> 0, Code |-> "", Message |-> <<>>, Details |-> <<>>, Cause |-> <<>>,
     err |-> Nil]

NoHTTPError == Node("http", "", 0, <<>>, <<>>, <<>>)

NoResponse == WriteJSON(0, NoHTTPError)

NoUserCtx == [key \in CtxKeys |-> CtxNil]

NoValidationError == NewValidationError(<<>>, <<>>)

\* responseerror.NewRegistry()
NewRegistry == [k \in {} |-> NilTree]

\* The two requests served at the same time.
Procs == { 1, 2 }

NoMatch == [branch |-> "none", key |-> NilTree]

NoStruct == [name |-> "", fields |-> <<>>]

Init ==
    /\ pc = "ready"
    /\ op = "none"
    /\ inErr = Nil
    /\ inStatus = 0
    /\ inSlug = ""
    /\ inParseErr = Nil
    /\ respErr = NoResponseError
    /\ httpErr = NoHTTPError
    /\ response = NoResponse
    /\ logRecords = <<>>
    /\ retErr = Nil
    /\ validatorCalls = 0
    /\ reqHeaderId = ""
    /\ requestID = ""
    /\ ctxRequestID = ""
    /\ respHeaderRequestID = ""
    /\ loggerRequestID = ""
    /\ userCtx = NoUserCtx
    /\ errmsg = <<>>
    /\ mwErr = Nil
    /\ respStatus = 0
    /\ loggedStatus = 0
    /\ errHandlerCalls = 0
    /\ verr = NoValidationError
    /\ verrs = Nil
    /\ supplied = 0
    /\ steps = 0
    /\ hasValidations = FALSE
    /\ derr = Nil
    /\ ctorCode = ""
    /\ lastCause = Nil
    /\ calls = 0
    /\ requests = 0
    /\ reqArg = ""
    /\ outString = <<>>
    /\ outError = <<>>
    /\ outCause = <<>>
    /\ outUnwrap = Nil
    /\ outCode = ""
    /\ detailsSet = FALSE
    /\ registry = NewRegistry
    /\ gets = 0
    /\ inTree = NilTree
    /\ getFrom = "none"
    /\ getOut = NilTree
    /\ registered = NewRegistry
    /\ setterCalled = FALSE
    /\ prevTree = NilTree
    /\ prevFrom = "none"
    /\ prevOut = NilTree
    /\ inStruct = NoStruct
    /\ outTranslated = Nil
    /\ rtErr = NoHTTPError
    /\ wire = MarshalHTTPError(NoHTTPError)
    /\ decoded = NoHTTPError
    /\ rtpc = "idle"
    /\ rpc = [p \in Procs |-> "idle"]
    /\ rField = [p \in Procs |-> ""]
    /\ rMsg = [p \in Procs |-> ""]
    /\ rTodo = [p \in Procs |-> {}]
    /\ rWords = [data |-> "", len |-> ""]
    /\ rRead = [p \in Procs |-> [data |-> "", len |-> ""]]
    /\ rVal = << >>
    /\ rInterleaved = FALSE
    /\ rOverlapped = FALSE
    /\ config = DefaultConfig
    /\ reqHeaders = << >>
    /\ respHeaders = << >>
    /\ handlerHeaders = << >>
    /\ customAttrs = << >>
    /\ cpc = [p \in Procs |-> "idle"]
    /\ cErr = [p \in Procs |-> NilTree]
    /\ cMatch = [p \in Procs |-> NoMatch]
    /\ cOut = [p \in Procs |-> NilTree]
    /\ cLoad = [p \in Procs |-> <<>>]
    /\ cMsg = << >>
    /\ cRead = [p \in Procs |-> MessageWords(<<>>)]
    /\ cTodo = [p \in Procs |-> {}]
    /\ cResp = [p \in Procs |-> ErrorResponse(NilTree)]

\* kit.NewResponseError(status, err), err non-nil
CallNewResponseError ==
    /\ pc = "ready"
    /\ \E status \in StatusInputs, err \in Errors :
          /\ inErr' = err
          /\ inStatus' = status
          /\ respErr' = NewResponseError(status, err)
    /\ op' = "NewResponseError"
    /\ pc' = "done"
    /\ UNCHANGED << inSlug, inParseErr, httpErr, response, logRecords, retErr,
                    validatorCalls, areaVars >>

\* kit.NewHTTPError(status, slug, err)
CallNewHTTPError ==
    /\ pc = "ready"
    /\ \E status \in StatusInputs, slug \in SlugInputs, err \in Errors \cup {Nil} :
          /\ inErr' = err
          /\ inStatus' = status
          /\ inSlug' = slug
          /\ httpErr' = NewHTTPError(status, slug, err)
    /\ op' = "NewHTTPError"
    /\ pc' = "done"
    /\ UNCHANGED << inParseErr, respErr, response, logRecords, retErr, validatorCalls,
                    areaVars >>

\* One of the HTTP*Error helpers
CallHTTPHelper ==
    /\ pc = "ready"
    /\ \E name \in HelperNames, slug \in SlugInputs, err \in Errors \cup {Nil} :
          /\ inErr' = err
          /\ inSlug' = slug
          /\ httpErr' = Helper(name, slug, err)
          /\ op' = name
    /\ pc' = "done"
    /\ UNCHANGED << inStatus, inParseErr, respErr, response, logRecords, retErr,
                    validatorCalls, areaVars >>

\* Fiber hands the error a handler returned to kit.ErrorHandler(logger).
CallErrorHandler ==
    /\ pc = "ready"
    /\ \E err \in Errors :
          /\ inErr' = err
          /\ response' = ErrorHandler(err)
          /\ logRecords' = LogFiberError(err)
    /\ op' = "ErrorHandler"
    /\ pc' = "done"
    /\ UNCHANGED << inStatus, inSlug, inParseErr, respErr, httpErr, retErr,
                    validatorCalls, areaVars >>

\* The same with the revision of ErrorHandler that has no fiber.Error branch.
CallErrorHandlerPlain ==
    /\ pc = "ready"
    /\ \E err \in Errors :
          /\ inErr' = err
          /\ response' = ErrorHandlerPlain(err)
    /\ op' = "ErrorHandlerPlain"
    /\ pc' = "done"
    /\ UNCHANGED << inStatus, inSlug, inParseErr, respErr, httpErr, logRecords, retErr,
                    validatorCalls, areaVars >>

\* kit.ParseRequestBody(out, c, v)
CallParseRequestBody ==
    /\ pc = "ready"
    /\ \E parseErr \in ParseErrInputs, valErr \in Errors \cup {Nil} :
          /\ inParseErr' = parseErr
          /\ inErr' = valErr
          /\ retErr' = ParseRequestBody(parseErr, valErr).err
          /\ validatorCalls' = ParseRequestBody(parseErr, valErr).calls
    /\ op' = "ParseRequestBody"
    /\ pc' = "done"
    /\ UNCHANGED << inStatus, inSlug, respErr, httpErr, response, logRecords,
                    areaVars >>

\* The caller drops the result; the next call starts from a clean slate.
Return ==
    /\ pc = "done"
    /\ pc' = "ready"
    /\ op' = "none"
    /\ inErr' = Nil
    /\ inStatus' = 0
    /\ inSlug' = ""
    /\ inParseErr' = Nil
    /\ respErr' = NoResponseError
    /\ httpErr' = NoHTTPError
    /\ response' = NoResponse
    /\ logRecords' = <<>>
    /\ retErr' = Nil
    /\ validatorCalls' = 0
    /\ reqHeaderId' = ""
    /\ requestID' = ""
    /\ ctxRequestID' = ""
    /\ respHeaderRequestID' = ""
    /\ loggerRequestID' = ""
    /\ userCtx' = NoUserCtx
    /\ errmsg' = <<>>
    /\ mwErr' = Nil
    /\ respStatus' = 0
    /\ loggedStatus' = 0
    /\ errHandlerCalls' = 0
    /\ verr' = NoValidationError
    /\ verrs' = Nil
    /\ supplied' = 0
    /\ steps' = 0
    /\ hasValidations' = FALSE
    /\ reqArg' = ""
    /\ outString' = <<>>
    /\ outError' = <<>>
    /\ outCause' = <<>>
    /\ outUnwrap' = Nil
    /\ outCode' = ""
    /\ inTree' = NilTree
    /\ getFrom' = "none"
    /\ getOut' = NilTree
    /\ prevTree' = inTree
    /\ prevFrom' = getFrom
    /\ prevOut' = getOut
    /\ cpc' = [p \in Procs |-> "idle"]
    /\ cErr' = [p \in Procs |-> NilTree]
    /\ cMatch' = [p \in Procs |-> NoMatch]
    /\ cOut' = [p \in Procs |-> NilTree]
    /\ cLoad' = [p \in Procs |-> <<>>]
    /\ cMsg' = << >>
    /\ cRead' = [p \in Procs |-> MessageWords(<<>>)]
    /\ cTodo' = [p \in Procs |-> {}]
    /\ cResp' = [p \in Procs |-> ErrorResponse(NilTree)]
    /\ rpc' = [p \in Procs |-> "idle"]
    /\ rField' = [p \in Procs |-> ""]
    /\ rMsg' = [p \in Procs |-> ""]
    /\ rTodo' = [p \in Procs |-> {}]
    /\ rWords' = [data |-> "", len |-> ""]
    /\ rRead' = [p \in Procs |-> [data |-> "", len |-> ""]]
    /\ rVal' = << >>
    /\ rInterleaved' = FALSE
    /\ rOverlapped' = FALSE
    /\ config' = DefaultConfig
    /\ reqHeaders' = << >>
    /\ respHeaders' = << >>
    /\ handlerHeaders' = << >>
    /\ customAttrs' = << >>
    /\ inStruct' = NoStruct
    /\ outTranslated' = Nil
    /\ rtErr' = NoHTTPError
    /\ wire' = MarshalHTTPError(NoHTTPError)
    /\ decoded' = NoHTTPError
    /\ rtpc' = "idle"
    /\ UNCHANGED << derr, ctorCode, lastCause, calls, requests, detailsSet, registry,
                    gets, registered, setterCalled >>

Next ==
    \/ CallNewResponseError
    \/ CallNewHTTPError
    \/ CallHTTPHelper
    \/ CallErrorHandler
    \/ CallErrorHandlerPlain
    \/ CallParseRequestBody
    \/ Return

Spec == Init /\ [][Next]_vars

\* --------------------------------- a request through the logging middleware

\* Header names in the spellings a request can carry them.
Authorization == << "A", "u", "t", "h", "o", "r", "i", "z", "a", "t", "i", "o", "n" >>
AuthorizationUpper == << "A", "U", "T", "H", "O", "R", "I", "Z", "A", "T", "I", "O", "N" >>
Cookie == << "C", "o", "o", "k", "i", "e" >>
SetCookie == << "S", "e", "t", "-", "C", "o", "o", "k", "i", "e" >>
XAuthToken == << "X", "-", "A", "u", "t", "h", "-", "T", "o", "k", "e", "n" >>
XCsrfToken == << "X", "-", "C", "s", "r", "f", "-", "T", "o", "k", "e", "n" >>
XXsrfTokenLower == << "x", "-", "x", "s", "r", "f", "-", "t", "o", "k", "e", "n" >>
Accept == << "A", "c", "c", "e", "p", "t" >>

FreshIDs == { "uuid-1", "uuid-2" }

\* The statuses a handler that returns nil leaves on the response.
HandlerStatuses == { StatusOK, StatusNotFound, StatusInternalServerError }

RouteNames == { <<>>, <<"Get user by ID">> }

UserCtx(email, company, category, permissions) ==
    [key \in CtxKeys |->
        CASE key = CtxKeyUserEmail           -> email
          [] key = CtxKeyUserCompany         -> company
          [] key = CtxKeyUserCompanyCategory -> category
          [] key = CtxKeyUserPermissions     -> permissions]

\* What the handlers before the log line stored in the request context.
UserContexts ==
    { NoUserCtx,
      UserCtx(CtxString(<<"ana@arvo.com">>), CtxString(<<"arvo">>),
              CtxString(<<"health">>), CtxStrings(<<"read", "write">>)),
      UserCtx(CtxString(<<"ana@arvo.com">>), CtxNil, CtxNil, CtxNil),
      UserCtx(CtxNil, CtxInt(<<"7">>), CtxNil, CtxStrings(<<"read">>)),
      UserCtx(CtxInt(<<"7">>), CtxString(<<"arvo">>), CtxNil, CtxString(<<"admin">>)),
      UserCtx(CtxNil, CtxNil, CtxString(<<"health">>), CtxStrings(<<>>)) }

Configs ==
    [DefaultLevel : {"INFO", "DEBUG"}, WithUserAgent : BOOLEAN,
     WithRequestHeader : BOOLEAN, WithResponseHeader : BOOLEAN]

Headers(names) == [k \in names |-> "value"]

\* The Content-Type a response has before anything sets one.
DefaultContentType == "text/plain; charset=utf-8"

RequestHeaderInputs ==
    { Headers({}),
      Header(RequestIDHeaderKey, "req-42"),
      Headers({Accept, UserAgentKey}),
      SetHeaders(Headers({Authorization, Accept}), Header(RequestIDHeaderKey, "req-42")),
      Headers({AuthorizationUpper, Cookie, SetCookie, XAuthToken, XCsrfToken,
               XXsrfTokenLower, UserAgentKey}) }

\* The response headers a handler sets.
HandlerHeaderInputs ==
    { Headers({}),
      Headers({SetCookie, ContentTypeKey}),
      Header(RequestIDHeaderKey, "handler-id") }

Attr(key, value) == [key |-> key, value |-> value]

\* The attributes a handler adds with AddCustomAttributes, one call each.
CustomAttributeInputs ==
    { <<>>,
      << Attr("request_id", "forged") >>,
      << Attr("tenant", "arvo"), Attr("user", "root") >> }

ConfigErrors == { ErrorsNew(<<"boom">>), FiberNewError(StatusNotFound, <<"Not Found">>) }

Constructors == { "LoggerMiddleware", "LoggerMiddlewareWithConfig" }

\* What is explored for the middleware each constructor builds:
\* LoggerMiddleware, which fixes the configuration, with every error of the
\* universe; LoggerMiddlewareWithConfig with every configuration and every
\* set of headers.
Universe(ctor) ==
    IF ctor = "LoggerMiddleware"
    THEN [configs        |-> { DefaultConfig },
          requestHeaders |-> { Headers({}), Header(RequestIDHeaderKey, "req-42") },
          fresh          |-> FreshIDs,
          errors         |-> Errors,
          handlerHeaders |-> { Headers({}), Header(RequestIDHeaderKey, "handler-id") },
          attributes     |-> { <<>>, << Attr("request_id", "forged") >> },
          contexts       |-> UserContexts,
          routes         |-> RouteNames]
    ELSE [configs        |-> Configs,
          requestHeaders |-> RequestHeaderInputs,
          fresh          |-> { "uuid-1" },
          errors         |-> ConfigErrors,
          handlerHeaders |-> HandlerHeaderInputs,
          attributes     |-> CustomAttributeInputs,
          contexts       |-> { NoUserCtx,
                               UserCtx(CtxString(<<"ana@arvo.com">>), CtxString(<<"arvo">>),
                                       CtxString(<<"health">>),
                                       CtxStrings(<<"read", "write">>)) },
          routes         |-> RouteNames]

\* The handler's calls of AddCustomAttributes, one after the other.
RECURSIVE AddAllCustomAttributes(_, _)
AddAllCustomAttributes(v, attrs) ==
    IF attrs = <<>> THEN v
    ELSE AddAllCustomAttributes(AddCustomAttributes(v, Head(attrs)), Tail(attrs))

\* c.JSON sets the Content-Type of the response.
JSONContentType(headers) == SetHeaders(headers, Header(ContentTypeKey, "application/json"))

requestConstant == << inStatus, inSlug, inParseErr, respErr, httpErr, retErr,
                      validatorCalls, builderVars, domainVars, registryVars,
                      concurrentVars,
                      validatorVars,
                      roundTripVars,
                      raceVars >>

\* The middleware up to c.Next(): the request identifier is settled,
\* stored, echoed and attached to the request-scoped logger.
MiddlewareEnter ==
    /\ pc = "ready"
    /\ \E ctor \in Constructors :
          \E cfg \in Universe(ctor).configs, rh \in Universe(ctor).requestHeaders,
             fresh \in Universe(ctor).fresh :
              /\ op' = ctor
              /\ config' = cfg
              /\ reqHeaders' = rh
              /\ reqHeaderId' = HeaderGet(rh, RequestIDHeaderKey)
              /\ requestID' = RequestID(HeaderGet(rh, RequestIDHeaderKey), fresh)
              /\ ctxRequestID' = RequestID(HeaderGet(rh, RequestIDHeaderKey), fresh)
              /\ respHeaderRequestID' = RequestID(HeaderGet(rh, RequestIDHeaderKey), fresh)
              /\ loggerRequestID' = RequestID(HeaderGet(rh, RequestIDHeaderKey), fresh)
              /\ respHeaders' =
                    SetHeaders(Header(ContentTypeKey, DefaultContentType),
                               Header(RequestIDHeaderKey,
                                      RequestID(HeaderGet(rh, RequestIDHeaderKey), fresh)))
    /\ respStatus' = StatusOK
    /\ pc' = "mw_next"
    /\ UNCHANGED << inErr, response, logRecords, userCtx, errmsg, mwErr, loggedStatus,
                    errHandlerCalls, handlerHeaders, customAttrs, requestConstant >>

\* c.Next(): the rest of the chain runs, sets response headers and custom
\* attributes, and returns nil, having written a status, or returns an error.
HandlerReturns ==
    /\ pc = "mw_next"
    /\ \E err \in Universe(op).errors \cup {Nil}, status \in HandlerStatuses,
          sets \in Universe(op).handlerHeaders, attrs \in Universe(op).attributes :
          /\ err # Nil => status = StatusOK
          /\ inErr' = err
          /\ respStatus' = status
          /\ handlerHeaders' = sets
          /\ respHeaders' = SetHeaders(respHeaders, sets)
          /\ respHeaderRequestID' =
                HeaderGet(SetHeaders(respHeaders, sets), RequestIDHeaderKey)
          /\ customAttrs' = AddAllCustomAttributes(customAttrs, attrs)
    /\ pc' = "mw_after"
    /\ UNCHANGED << op, response, logRecords, reqHeaderId, requestID, ctxRequestID,
                    loggerRequestID, userCtx, errmsg, mwErr, loggedStatus,
                    errHandlerCalls, config, reqHeaders, requestConstant >>

\* err != nil: the middleware runs the application's error handler itself.
MiddlewareHandlesError ==
    /\ pc = "mw_after"
    /\ inErr # Nil
    /\ errmsg' = Error(inErr)
    /\ \E fails \in BOOLEAN :
          /\ mwErr' = RunErrorHandler(inErr, fails).ret
          /\ respStatus' = StatusAfterError(inErr, fails)
          /\ response' = IF fails THEN response ELSE ErrorHandler(inErr)
          /\ respHeaders' = IF fails THEN respHeaders ELSE JSONContentType(respHeaders)
          /\ logRecords' = logRecords \o RunErrorHandler(inErr, fails).logs
    /\ errHandlerCalls' = errHandlerCalls + 1
    /\ pc' = "mw_log"
    /\ UNCHANGED << op, inErr, reqHeaderId, requestID, ctxRequestID,
                    respHeaderRequestID, loggerRequestID, userCtx, loggedStatus,
                    config, reqHeaders, handlerHeaders, customAttrs, requestConstant >>

\* err == nil: nothing to handle.
MiddlewareNoError ==
    /\ pc = "mw_after"
    /\ inErr = Nil
    /\ pc' = "mw_log"
    /\ UNCHANGED << op, inErr, response, logRecords, requestVars, headerVars,
                    requestConstant >>

\* The middleware reads the response status, the headers and the request
\* context and writes its record, then returns.
MiddlewareLog ==
    /\ pc = "mw_log"
    /\ loggedStatus' = respStatus
    /\ \E ctx \in Universe(op).contexts, routeName \in Universe(op).routes :
          /\ userCtx' = ctx
          /\ logRecords' = Append(logRecords,
                RequestRecord(config, requestID, respStatus, errmsg, routeName, ctx,
                              reqHeaders, respHeaders, customAttrs))
    /\ pc' = "mw_return"
    /\ UNCHANGED << op, inErr, response, reqHeaderId, requestID, ctxRequestID,
                    respHeaderRequestID, loggerRequestID, errmsg, mwErr, respStatus,
                    errHandlerCalls, headerVars, requestConstant >>

\* The middleware returned an error: the framework hands it to the
\* application's error handler and answers 500 if that fails too.
FrameworkCatch ==
    /\ pc = "mw_return"
    /\ mwErr # Nil
    /\ \E fails \in BOOLEAN :
          /\ respStatus' = StatusAfterError(mwErr, fails)
          /\ response' = IF fails THEN response ELSE ErrorHandler(mwErr)
          /\ respHeaders' = IF fails THEN respHeaders ELSE JSONContentType(respHeaders)
          /\ logRecords' = logRecords \o RunErrorHandler(mwErr, fails).logs
    /\ errHandlerCalls' = errHandlerCalls + 1
    /\ pc' = "done"
    /\ UNCHANGED << op, inErr, reqHeaderId, requestID, ctxRequestID,
                    respHeaderRequestID, loggerRequestID, userCtx, errmsg, mwErr,
                    loggedStatus, config, reqHeaders, handlerHeaders, customAttrs,
                    requestConstant >>

\* The middleware returned nil: the response goes out as it is.
FrameworkSend ==
    /\ pc = "mw_return"
    /\ mwErr = Nil
    /\ pc' = "done"
    /\ UNCHANGED << op, inErr, response, logRecords, requestVars, headerVars,
                    requestConstant >>

NextLogger ==
    \/ MiddlewareEnter
    \/ HandlerReturns
    \/ MiddlewareHandlesError
    \/ MiddlewareNoError
    \/ MiddlewareLog
    \/ FrameworkCatch
    \/ FrameworkSend
    \/ Return

SpecLogger == Init /\ [][NextLogger]_vars

\* ------------------------------------------- building a validation error

\* The builder calls one error receives before it is asked.
MaxCalls == 3

FieldNames == { "", "name", "email" }

ValidationTexts == { "is required", "must be valid" }

V(field, validation) == [Field |-> field, Validation |-> validation]

\* The variadic arguments of NewValidationError and AddValidations.
ValidationLists ==
    { <<>>,
      << V("name", "is required") >>,
      << V("name", "is required"), V("email", "must be valid") >>,
      << V("name", "is required"), V("name", "must be valid") >> }

\* The variadic arguments of NewValidationErrors and Add.
MessageLists ==
    { <<>>,
      << "Field A is required" >>,
      << "Field C cannot exceed 10 characters", "Field D must be unique" >> }

builderConstant == << inErr, inStatus, inSlug, inParseErr, respErr, httpErr, response,
                      logRecords, retErr, validatorCalls, requestVars, domainVars,
                      registryVars,
                      concurrentVars,
                      validatorVars,
                      roundTripVars,
                      raceVars,
                      headerVars >>

Building(name) == pc = "building" /\ op = name /\ steps < MaxCalls

\* kit.NewValidationError(message, validations...)
CallNewValidationError ==
    /\ pc = "ready"
    /\ \E validations \in ValidationLists :
          /\ verr' = NewValidationError(<<"validation failed">>, validations)
          /\ supplied' = Len(validations)
    /\ op' = "ValidationError"
    /\ pc' = "building"
    /\ UNCHANGED << verrs, steps, hasValidations, builderConstant >>

\* e.Field(field)
CallField ==
    /\ Building("ValidationError")
    /\ \E field \in FieldNames : verr' = Field(verr, field)
    /\ steps' = steps + 1
    /\ UNCHANGED << pc, op, verrs, supplied, hasValidations, builderConstant >>

\* e.Err(validation)
CallErr ==
    /\ Building("ValidationError")
    /\ \E validation \in ValidationTexts : verr' = Err(verr, validation)
    /\ supplied' = supplied + 1
    /\ steps' = steps + 1
    /\ UNCHANGED << pc, op, verrs, hasValidations, builderConstant >>

\* e.AddValidation(field, validation)
CallAddValidation ==
    /\ Building("ValidationError")
    /\ \E field \in FieldNames, validation \in ValidationTexts :
          verr' = AddValidation(verr, field, validation)
    /\ supplied' = supplied + 1
    /\ steps' = steps + 1
    /\ UNCHANGED << pc, op, verrs, hasValidations, builderConstant >>

\* e.AddValidations(validations...)
CallAddValidations ==
    /\ Building("ValidationError")
    /\ \E validations \in ValidationLists :
          /\ verr' = AddValidations(verr, validations)
          /\ supplied' = supplied + Len(validations)
    /\ steps' = steps + 1
    /\ UNCHANGED << pc, op, verrs, hasValidations, builderConstant >>

\* e.Wrap(err)
CallWrap ==
    /\ Building("ValidationError")
    /\ \E err \in { Nil, ErrorsNew(<<"boom">>) } : verr' = Wrap(verr, err)
    /\ steps' = steps + 1
    /\ UNCHANGED << pc, op, verrs, supplied, hasValidations, builderConstant >>

\* e.HasValidations()
CallHasValidations ==
    /\ pc = "building"
    /\ op = "ValidationError"
    /\ hasValidations' = HasValidations(verr)
    /\ pc' = "done"
    /\ UNCHANGED << op, verr, verrs, supplied, steps, builderConstant >>

\* kit.NewValidationErrors(message, validations...)
CallNewValidationErrors ==
    /\ pc = "ready"
    /\ \E validations \in MessageLists :
          /\ verrs' = NewValidationErrors(<<"Validation failed">>, validations)
          /\ supplied' = Len(validations)
    /\ op' = "ValidationErrors"
    /\ pc' = "building"
    /\ UNCHANGED << verr, steps, hasValidations, builderConstant >>

\* validationErrors.Add(validations...)
CallAdd ==
    /\ Building("ValidationErrors")
    /\ \E validations \in MessageLists :
          /\ verrs' = Add(verrs, validations)
          /\ supplied' = supplied + Len(validations)
    /\ steps' = steps + 1
    /\ UNCHANGED << pc, op, verr, hasValidations, builderConstant >>

\* validationErrors.HasValidations()
CallValidationErrorsHasValidations ==
    /\ pc = "building"
    /\ op = "ValidationErrors"
    /\ hasValidations' = ValidationErrorsHasValidations(verrs)
    /\ pc' = "done"
    /\ UNCHANGED << op, verr, verrs, supplied, steps, builderConstant >>

NextValidation ==
    \/ CallNewValidationError
    \/ CallField
    \/ CallErr
    \/ CallAddValidation
    \/ CallAddValidations
    \/ CallWrap
    \/ CallHasValidations
    \/ CallNewValidationErrors
    \/ CallAdd
    \/ CallValidationErrorsHasValidations
    \/ Return

SpecValidation == Init /\ [][NextValidation]_vars

\* ------------------------------------------------ a package-level *Error

\* var Err... = kit.NewErrorf(code, format, args...)
SentinelInputs ==
    { NewErrorf("USER_NOT_FOUND", <<"user with ID ", "%s", " not found">>, <<>>),
      NewErrorf("SIMPLE_ERROR", <<"this is a simple error">>, <<>>),
      NewErrorf("FORMATTED_ERROR", <<"error ", "%s", ": ", "%s">>, <<"404", "not found">>) }

ArgInputs == { "203", "7" }

DetailInputs == { <<>>, <<"detail1", "detail2">> }

CauseInputs ==
    { Nil,
      ErrorsNew(<<"inner cause">>),
      Errorf(<<"query">>, ErrorsNew(<<"inner cause">>)),
      NewValidationErrors(<<"validation failed">>, <<"Name is required">>) }

domainConstant == << inStatus, inSlug, inParseErr, httpErr, response, logRecords,
                     retErr, validatorCalls, requestVars, builderVars, registryVars,
                     concurrentVars,
                     validatorVars,
                     roundTripVars,
                     raceVars,
                     headerVars >>

\* The package initialises the variable.
ConstructError ==
    /\ pc = "ready"
    /\ derr = Nil
    /\ \E e \in SentinelInputs :
          /\ derr' = e
          /\ ctorCode' = Head(e).code
    /\ UNCHANGED << pc, op, inErr, respErr, lastCause, calls, requests, reqArg,
                    outString, outError, outCause, outUnwrap, outCode, detailsSet,
                    domainConstant >>

Buildable == pc = "ready" /\ derr # Nil /\ calls < MaxCalls

\* derr.WithArgs(arg)
CallWithArgs ==
    /\ Buildable
    /\ \E arg \in ArgInputs : derr' = WithArgs(derr, <<arg>>)
    /\ calls' = calls + 1
    /\ UNCHANGED << pc, op, inErr, respErr, ctorCode, lastCause, requests, reqArg,
                    outString, outError, outCause, outUnwrap, outCode, detailsSet,
                    domainConstant >>

\* derr.WithDetails(details)
CallWithDetails ==
    /\ Buildable
    /\ \E details \in DetailInputs : derr' = WithDetails(derr, details)
    /\ detailsSet' = TRUE
    /\ calls' = calls + 1
    /\ UNCHANGED << pc, op, inErr, respErr, ctorCode, lastCause, requests, reqArg,
                    outString, outError, outCause, outUnwrap, outCode, domainConstant >>

\* derr.WrapCause(err)
CallWrapCause ==
    /\ Buildable
    /\ \E err \in CauseInputs :
          /\ derr' = WrapCause(derr, err)
          /\ lastCause' = err
    /\ calls' = calls + 1
    /\ UNCHANGED << pc, op, inErr, respErr, ctorCode, requests, reqArg,
                    outString, outError, outCause, outUnwrap, outCode, detailsSet,
                    domainConstant >>

\* The caller reads derr through String, Error, Cause, errors.Unwrap and Code.
CallAccessors ==
    /\ pc = "ready"
    /\ derr # Nil
    /\ outString' = String(Head(derr))
    /\ outError' = Error(derr)
    /\ outCause' = Cause(derr)
    /\ outUnwrap' = Unwrap(derr)
    /\ outCode' = Code(derr)
    /\ op' = "Error"
    /\ pc' = "done"
    /\ UNCHANGED << inErr, respErr, derr, ctorCode, lastCause, calls, requests, reqArg,
                    detailsSet,
                    domainConstant >>

\* A request handler specialises the sentinel and coerces the result:
\* return kit.NewResponseError(404, ErrUserNotFound.WithArgs(id))
RequestWithArgs ==
    /\ Buildable
    /\ \E arg \in ArgInputs :
          /\ reqArg' = arg
          /\ derr' = WithArgs(derr, <<arg>>)
          /\ inErr' = WithArgs(derr, <<arg>>)
          /\ respErr' = NewResponseError(StatusNotFound, WithArgs(derr, <<arg>>))
    /\ calls' = calls + 1
    /\ requests' = requests + 1
    /\ op' = "WithArgs"
    /\ pc' = "done"
    /\ UNCHANGED << ctorCode, lastCause, outString, outError, outCause, outUnwrap,
                    outCode, detailsSet,
                    domainConstant >>

\* A request handler wraps the error it got in the sentinel and coerces the
\* result: return kit.NewResponseError(422, ErrRequestValidation.WrapCause(err))
RequestWrapCause ==
    /\ Buildable
    /\ \E err \in CauseInputs :
          /\ lastCause' = err
          /\ derr' = WrapCause(derr, err)
          /\ inErr' = WrapCause(derr, err)
          /\ respErr' = NewResponseError(StatusUnprocessableEntity, WrapCause(derr, err))
    /\ calls' = calls + 1
    /\ requests' = requests + 1
    /\ op' = "WrapCause"
    /\ pc' = "done"
    /\ UNCHANGED << ctorCode, reqArg, outString, outError, outCause, outUnwrap,
                    outCode, detailsSet, domainConstant >>

NextDomain ==
    \/ ConstructError
    \/ CallWithArgs
    \/ CallWithDetails
    \/ CallWrapCause
    \/ CallAccessors
    \/ RequestWithArgs
    \/ RequestWrapCause
    \/ Return

SpecDomain == Init /\ [][NextDomain]_vars

\* ----------------------------------------------------- using the registry

\* The calls of Get in one run.
MaxGets == 2

ErrExample == TreeNew(<<"example error">>)
ErrNotFound == TreeNew(<<"not found">>)
ErrOther == TreeNew(<<"connection refused">>)

Sentinels == { ErrExample, ErrNotFound, ErrOther }

\* The arguments of the Add calls of the application's set-up.
AddInputs ==
    { [err |-> ErrExample, code |-> ErrV001, status |-> <<StatusUnprocessableEntity>>],
      [err |-> ErrNotFound, code |-> <<"E", "R", "R", "-", "N", "0", "0", "1">>,
       status |-> <<StatusNotFound>>],
      [err |-> ErrNotFound, code |-> <<"E", "R", "R">>, status |-> <<>>],
      [err |-> ErrOther, code |-> <<>>, status |-> <<StatusConflict>>],
      [err |-> NilTree, code |-> ErrI000, status |-> <<>>] }

\* Errors without a wrapper around them.
TreeLeaves ==
    Sentinels \cup
    { TreeValidationError(<<"validation failed">>, <<>>, NilTree),
      TreeValidationError(<<"validation failed">>, << V("name", "is required") >>,
                          NilTree),
      New(ErrOther, <<"E", "R", "R", "-", "B", "0", "0", "1">>, <<StatusConflict>>) }

\* Non-nil errors whose tree is d nodes deep.
RECURSIVE TreesOfDepth(_)
TreesOfDepth(d) ==
    IF d = 1 THEN TreeLeaves
    ELSE { TreeErrorf(<<"handler">>, c) : c \in TreesOfDepth(d - 1) }
            \cup IF d = 2
                 THEN { Join(<<a, b>>) : a \in Sentinels, b \in Sentinels }
                        \cup { TreeValidationError(<<"invalid input">>,
                                                   << V("email", "must be valid") >>, c) :
                                  c \in { ErrExample, ErrOther } }
                 ELSE {}

Trees == UNION { TreesOfDepth(d) : d \in 1..MaxDepth }

registryConstant == << inErr, inStatus, inSlug, inParseErr, respErr, httpErr, response,
                       logRecords, retErr, validatorCalls, requestVars, builderVars,
                       domainVars,
                       concurrentVars,
                       validatorVars,
                       roundTripVars,
                       raceVars,
                       headerVars >>

\* Set-up: registry.Add(err, code, status...), before requests are served.
CallRegistryAdd ==
    /\ pc = "ready"
    /\ gets = 0
    /\ \E a \in AddInputs :
          /\ registry' = RegistryAdd(registry, a.err, a.code, a.status)
          /\ registered' = RegistryAdd(registry, a.err, a.code, a.status)
    /\ UNCHANGED << pc, op, gets, inTree, getFrom, getOut, setterCalled, prevTree,
                    prevFrom, prevOut, registryConstant >>

\* registry.Get(err), err non-nil
CallGet ==
    /\ pc = "ready"
    /\ gets < MaxGets
    /\ \E err \in Trees :
          LET got == Get(registry, err)
          IN  /\ inTree' = err
              /\ registry' = got.registry
              /\ getFrom' = got.from
              /\ getOut' = got.out
    /\ gets' = gets + 1
    /\ op' = "Get"
    /\ pc' = "done"
    /\ UNCHANGED << registered, setterCalled, prevTree, prevFrom, prevOut,
                    registryConstant >>

\* The statuses and details callers hand to the setters.
StatusCodeInputs == { StatusNotFound }

DetailsInputs == { MapSetAll(EmptyMap, << V("a", "b") >>) }

\* The registry after a write through the pointer Get returned: the
\* registered object itself when Get returned one, nothing of the registry
\* otherwise.
WriteThrough(reg, err, from, e) ==
    IF from = "registry"
    THEN [reg EXCEPT ![GetMatch(reg, err).key] = e]
    ELSE reg

\* The caller of Get calls StatusCode(status) on the ResponseError it got.
CallStatusCode ==
    /\ pc = "done"
    /\ op \in {"Get", "StatusCode", "Details"}
    /\ getFrom # "panic"
    /\ \E status \in StatusCodeInputs :
          /\ getOut' = StatusCode(getOut, status)
          /\ registry' = WriteThrough(registry, inTree, getFrom, StatusCode(getOut, status))
    /\ setterCalled' = TRUE
    /\ op' = "StatusCode"
    /\ UNCHANGED << pc, gets, inTree, getFrom, registered, prevTree, prevFrom, prevOut,
                    registryConstant >>

\* The caller of Get calls Details(details) on the ResponseError it got.
CallDetails ==
    /\ pc = "done"
    /\ op \in {"Get", "StatusCode", "Details"}
    /\ getFrom # "panic"
    /\ \E details \in DetailsInputs :
          /\ getOut' = Details(getOut, details)
          /\ registry' = WriteThrough(registry, inTree, getFrom, Details(getOut, details))
    /\ setterCalled' = TRUE
    /\ op' = "Details"
    /\ UNCHANGED << pc, gets, inTree, getFrom, registered, prevTree, prevFrom, prevOut,
                    registryConstant >>

NextRegistry ==
    \/ CallRegistryAdd
    \/ CallGet
    \/ CallStatusCode
    \/ CallDetails
    \/ Return

SpecRegistry == Init /\ [][NextRegistry]_vars

\* ------------------------------------- two requests on the same registry

concurrentConstant == << inErr, inStatus, inSlug, inParseErr, respErr, httpErr,
                         response, logRecords, retErr, validatorCalls, requestVars,
                         builderVars, domainVars,
                         validatorVars,
                         roundTripVars,
                         raceVars,
                         headerVars >>

getUnchanged == << inTree, getFrom, getOut, registered, setterCalled, prevTree, prevFrom,
                  prevOut >>

\* Two requests arrive, each with the error its handler returned; neither
\* is an error on which Get panics.
StartRequests ==
    /\ pc = "ready"
    /\ gets = 0
    /\ \E e1 \in Trees, e2 \in Trees :
          /\ GetMatch(registry, e1).branch # "panic"
          /\ GetMatch(registry, e2).branch # "panic"
          /\ cErr' = [p \in Procs |-> IF p = 1 THEN e1 ELSE e2]
    /\ cpc' = [p \in Procs |-> "lookup"]
    /\ cMsg' = [k \in DOMAIN registry |-> MessageWords(registry[k].msg)]
    /\ gets' = gets + 2
    /\ op' = "FiberErrorHandler"
    /\ pc' = "serving"
    /\ UNCHANGED << registry, cMatch, cOut, cLoad, cRead, cTodo, cResp, getUnchanged,
                    concurrentConstant >>

\* Request p runs Get up to the branch that answers (lines 40-73): it holds
\* a pointer to a registered ResponseError or to one of its own.
GetLookup(p) ==
    /\ pc = "serving"
    /\ cpc[p] = "lookup"
    /\ cMatch' = [cMatch EXCEPT ![p] = GetMatch(registry, cErr[p])]
    /\ cOut' = [cOut EXCEPT ![p] =
            CASE GetMatch(registry, cErr[p]).branch = "err" -> TreeAs(cErr[p], "response")
              [] GetMatch(registry, cErr[p]).branch = "default" -> GetDefault(cErr[p])
              [] OTHER -> NilTree]
    /\ cpc' = [cpc EXCEPT ![p] =
            CASE GetMatch(registry, cErr[p]).branch = "joined" -> "load"
              [] GetMatch(registry, cErr[p]).branch = "unwrap" -> "message"
              [] GetMatch(registry, cErr[p]).branch = "direct" -> "details"
              [] OTHER -> "status"]
    /\ cTodo' = [cTodo EXCEPT ![p] =
            IF GetMatch(registry, cErr[p]).branch \in {"joined", "unwrap"}
            THEN AllWords ELSE {}]
    /\ UNCHANGED << pc, op, registry, gets, cErr, cLoad, cMsg, cRead, cResp,
                    getUnchanged, concurrentConstant >>

\* Line 74, first half: request p loads one of the two words of the message
\* of the registered ResponseError, and has the message when it has both.
GetMessageLoad(p) ==
    /\ pc = "serving"
    /\ cpc[p] = "load"
    /\ \E w \in cTodo[p] :
          LET words == StoreWord(cRead[p], w, cMsg[cMatch[p].key][w])
          IN  IF cTodo[p] = {w}
              THEN /\ cLoad' = [cLoad EXCEPT ![p] = WordsMessage(words)]
                   /\ cRead' = [cRead EXCEPT ![p] = MessageWords(<<>>)]
                   /\ cTodo' = [cTodo EXCEPT ![p] = AllWords]
                   /\ cpc' = [cpc EXCEPT ![p] = "message"]
              ELSE /\ cRead' = [cRead EXCEPT ![p] = words]
                   /\ cTodo' = [cTodo EXCEPT ![p] = @ \ {w}]
                   /\ UNCHANGED << cLoad, cpc >>
    /\ UNCHANGED << pc, op, registry, gets, cErr, cMatch, cOut, cMsg, cResp,
                    getUnchanged, concurrentConstant >>

\* Lines 62 and 74: request p stores one of the two words of the new
\* message in the registered ResponseError.
GetMessage(p) ==
    /\ pc = "serving"
    /\ cpc[p] = "message"
    /\ \E w \in cTodo[p] :
          LET words == StoreWord(cMsg[cMatch[p].key], w,
                                 GetNewMessage(registry, cErr[p], cLoad[p]))
          IN  /\ cMsg' = [cMsg EXCEPT ![cMatch[p].key] = words]
              /\ registry' = [registry EXCEPT ![cMatch[p].key].msg = WordsMessage(words)]
              /\ cTodo' = [cTodo EXCEPT ![p] = @ \ {w}]
              /\ cpc' = [cpc EXCEPT ![p] = IF cTodo[p] = {w} THEN "details" ELSE "message"]
    /\ UNCHANGED << pc, op, gets, cErr, cMatch, cOut, cLoad, cRead, cResp, getUnchanged,
                    concurrentConstant >>

\* Request p writes the details of the registered ResponseError and Get
\* returns.
GetDetailsWrite(p) ==
    /\ pc = "serving"
    /\ cpc[p] = "details"
    /\ registry' = GetWriteDetails(registry, cErr[p], cMatch[p].key)
    /\ cpc' = [cpc EXCEPT ![p] = "status"]
    /\ UNCHANGED << pc, op, gets, cErr, cMatch, cOut, cLoad, cMsg, cRead, cTodo, cResp,
                    getUnchanged, concurrentConstant >>

\* The ResponseError FiberErrorHandler holds for request p, as it is now.
Held(p) == IF cMatch[p].key # NilTree THEN registry[cMatch[p].key] ELSE cOut[p]

\* The two words of its message.
HeldWords(p) ==
    IF cMatch[p].key # NilTree THEN cMsg[cMatch[p].key] ELSE MessageWords(cOut[p].msg)

\* FiberErrorHandler reads the four fields of the ResponseError one after
\* the other: statusCode,
ReadStatus(p) ==
    /\ pc = "serving"
    /\ cpc[p] = "status"
    /\ cResp' = [cResp EXCEPT ![p].status = ErrorResponse(Held(p)).status]
    /\ cpc' = [cpc EXCEPT ![p] = "code"]
    /\ UNCHANGED << pc, op, registry, gets, cErr, cMatch, cOut, cLoad, cMsg, cRead,
                    cTodo, getUnchanged, concurrentConstant >>

\* code,
ReadCode(p) ==
    /\ pc = "serving"
    /\ cpc[p] = "code"
    /\ cResp' = [cResp EXCEPT ![p].code = ErrorResponse(Held(p)).code]
    /\ cpc' = [cpc EXCEPT ![p] = "read_message"]
    /\ cTodo' = [cTodo EXCEPT ![p] = AllWords]
    /\ UNCHANGED << pc, op, registry, gets, cErr, cMatch, cOut, cLoad, cMsg, cRead,
                    getUnchanged, concurrentConstant >>

\* message, one word at a time,
ReadMessage(p) ==
    /\ pc = "serving"
    /\ cpc[p] = "read_message"
    /\ \E w \in cTodo[p] :
          LET words == StoreWord(cRead[p], w, HeldWords(p)[w])
          IN  IF cTodo[p] = {w}
              THEN /\ cResp' = [cResp EXCEPT ![p].message = WordsMessage(words)]
                   /\ cRead' = [cRead EXCEPT ![p] = MessageWords(<<>>)]
                   /\ cTodo' = [cTodo EXCEPT ![p] = {}]
                   /\ cpc' = [cpc EXCEPT ![p] = "read_details"]
              ELSE /\ cRead' = [cRead EXCEPT ![p] = words]
                   /\ cTodo' = [cTodo EXCEPT ![p] = @ \ {w}]
                   /\ UNCHANGED << cResp, cpc >>
    /\ UNCHANGED << pc, op, registry, gets, cErr, cMatch, cOut, cLoad, cMsg,
                    getUnchanged, concurrentConstant >>

\* and details, and sends the payload.
ReadDetails(p) ==
    /\ pc = "serving"
    /\ cpc[p] = "read_details"
    /\ cResp' = [cResp EXCEPT ![p].details = ErrorResponse(Held(p)).details]
    /\ cpc' = [cpc EXCEPT ![p] = "done"]
    /\ UNCHANGED << pc, op, registry, gets, cErr, cMatch, cOut, cLoad, cMsg, cRead,
                    cTodo, getUnchanged, concurrentConstant >>

\* Both responses are out.
RequestsServed ==
    /\ pc = "serving"
    /\ \A p \in Procs : cpc[p] = "done"
    /\ pc' = "done"
    /\ UNCHANGED << op, registry, gets, concurrentVars, getUnchanged, concurrentConstant >>

NextConcurrent ==
    \/ CallRegistryAdd
    \/ StartRequests
    \/ \E p \in Procs : GetLookup(p)
    \/ \E p \in Procs : GetMessageLoad(p)
    \/ \E p \in Procs : GetMessage(p)
    \/ \E p \in Procs : GetDetailsWrite(p)
    \/ \E p \in Procs : ReadStatus(p)
    \/ \E p \in Procs : ReadCode(p)
    \/ \E p \in Procs : ReadMessage(p)
    \/ \E p \in Procs : ReadDetails(p)
    \/ RequestsServed
    \/ Return

SpecConcurrent == Init /\ [][NextConcurrent]_vars

\* ---------------------------------------------------------------------------
\* Struct validation with translated messages: Validate.StructTranslated
\* ---------------------------------------------------------------------------

\* A field of a validated struct: its declared name, its `custom` tag ("" when
\* the tag is absent) and the first rule of its `validate` tag that the value
\* violates ("" when the value passes every rule).
StructField(name, custom, failed) == [name |-> name, custom |-> custom, failed |-> failed]

\* The function given to RegisterTagNameFunc: the `custom` tag, else the name.
TagName(field) == IF field.custom = "" THEN field.name ELSE field.custom

\* The pt_BR translation of a failed rule, for the name the field goes by.
Translation(name, rule) ==
    IF rule = "required" THEN << name, " é um campo obrigatório" >>
    ELSE IF rule = "email" THEN << name, " deve ser um endereço de e-mail válido" >>
    ELSE << name, " deve ser 18 ou superior" >>

\* validator.Struct: one FieldError per failing field, in declaration order.
\* Its namespace is the struct's name followed by the name the field goes by.
FieldErrors(s) ==
    LET failing == SelectSeq(s.fields, LAMBDA f : f.failed # "")
    IN  [i \in 1..Len(failing) |->
            [ns |-> << s.name, ".", TagName(failing[i]) >>,
             field |-> TagName(failing[i]),
             tag |-> failing[i].failed]]

\* ValidationErrors.Translate: a map from namespace to translated message,
\* filled in the order of the field errors, a later entry replacing an earlier
\* one with the same namespace.
RECURSIVE TranslateFrom(_, _)
TranslateFrom(ve, trans) ==
    IF ve = <<>> THEN trans
    ELSE TranslateFrom(Tail(ve),
                       MapSet(trans, Head(ve).ns,
                              Translation(Head(ve).field, Head(ve).tag)))

Translate(ve) == TranslateFrom(ve, EmptyMap)

\* The orders in which a range over a map can visit its keys.
RangeOrders(m) ==
    { o \in [1..Cardinality(DOMAIN m) -> DOMAIN m] :
        \A i, j \in DOMAIN o : o[i] = o[j] => i = j }

\* Validate.StructTranslated(s), the range over the translations visiting the
\* keys in the given order.
StructTranslated(s, order) ==
    LET validationErrors == FieldErrors(s)
        translations == Translate(validationErrors)
    IN  IF validationErrors = <<>> THEN Nil
        ELSE NewValidationErrors(<<"validation failed">>,
                                 [i \in 1..Len(order) |-> translations[order[i]]])

\* The structs validated: the fields of the test's ExampleStruct in their
\* order, each with its own custom tag, with another field's, or with none.
DeclaredNames == << "Name", "Email", "Age" >>

CustomTags == { "", "Nome", "E-mail" }

FailedRules == { "", "required", "email", "gte" }

Structs ==
    UNION { { [name |-> "ExampleStruct",
               fields |-> [i \in 1..n |-> StructField(DeclaredNames[i], c[i], r[i])]] :
              c \in [1..n -> CustomTags], r \in [1..n -> FailedRules] } :
            n \in 1..Len(DeclaredNames) }

validatorConstant == << inErr, inStatus, inSlug, inParseErr, respErr, httpErr, response,
                        logRecords, retErr, validatorCalls, requestVars, builderVars,
                        domainVars, registryVars, concurrentVars,
                        roundTripVars,
                        raceVars,
                        headerVars >>

CallStructTranslated ==
    /\ pc = "ready"
    /\ \E s \in Structs :
          \E order \in RangeOrders(Translate(FieldErrors(s))) :
              /\ inStruct' = s
              /\ outTranslated' = StructTranslated(s, order)
    /\ op' = "StructTranslated"
    /\ pc' = "done"
    /\ UNCHANGED validatorConstant

NextValidator ==
    \/ CallStructTranslated
    \/ Return

SpecValidator == Init /\ [][NextValidator]_vars

\* ---------------------------------------------------------------------------
\* The JSON round trip of an HTTPError
\* ---------------------------------------------------------------------------

RoundTripStatuses == { 0, StatusBadRequest, StatusNotFound, StatusUnprocessableEntity }

RoundTripSlugs == { "", "user-not-found", "\\xff" }

RoundTripMessages ==
    { <<"user with ID 7 not found">>,
      <<"user with ID ", "\\xff", " not found">>,
      <<"validation error">> }

RoundTripDetails == { <<"field1 is required">>, <<"field1 is required", "\\xff">> }

RoundTripErrors ==
    { ErrorsNew(m) : m \in RoundTripMessages }
        \cup { NewValidationErrors(m, d) : m \in RoundTripMessages, d \in RoundTripDetails }
        \cup { NewValidationErrors(m, <<>>) : m \in RoundTripMessages }

roundTripConstant == << inErr, inStatus, inSlug, inParseErr, respErr, httpErr, response,
                        logRecords, retErr, validatorCalls, requestVars, builderVars,
                        domainVars, registryVars, concurrentVars, validatorVars,
                        raceVars,
                        headerVars >>

\* json.Marshal(h) for an HTTPError built by NewHTTPError.
CallMarshal ==
    /\ pc = "ready"
    /\ \E status \in RoundTripStatuses, slug \in RoundTripSlugs, err \in RoundTripErrors :
          /\ rtErr' = NewHTTPError(status, slug, err)
          /\ wire' = MarshalHTTPError(NewHTTPError(status, slug, err))
    /\ rtpc' = "marshalled"
    /\ op' = "RoundTrip"
    /\ pc' = "decoding"
    /\ UNCHANGED << decoded, roundTripConstant >>

\* json.Unmarshal of the serialized form into a new HTTPError.
CallUnmarshal ==
    /\ pc = "decoding"
    /\ rtpc = "marshalled"
    /\ decoded' = UnmarshalHTTPError(wire)
    /\ rtpc' = "decoded"
    /\ pc' = "done"
    /\ UNCHANGED << op, rtErr, wire, roundTripConstant >>

NextRoundTrip ==
    \/ CallMarshal
    \/ CallUnmarshal
    \/ Return

SpecRoundTrip == Init /\ [][NextRoundTrip]_vars

\* ---------------------------------------------------------------------------
\* Two callers of Field(f).Err(m) on one ValidationError
\* ---------------------------------------------------------------------------

raceConstant == << inErr, inStatus, inSlug, inParseErr, respErr, httpErr, response,
                   logRecords, retErr, validatorCalls, requestVars, domainVars,
                   registryVars, concurrentVars, validatorVars, roundTripVars,
                   headerVars >>

\* len(s) of the field names and texts of the callers.
StrLen(s) ==
    CASE s = "" -> 0
      [] s = "name" -> 4
      [] s = "email" -> 5
      [] s = "is required" -> 11
      [] s = "must be valid" -> 13

\* A string variable is two words, data and length, stored and loaded one
\* at a time. The string made of the data of one string and the length of
\* another: the data cut to that length, or the data followed by the bytes
\* that come after it in memory, each written \? here.
TornString(data, length) ==
    IF StrLen(data) = StrLen(length) THEN data
    ELSE IF StrLen(length) = 0 THEN ""
    ELSE CASE data = "email" /\ length = "name" -> "emai"
           [] data = "name" /\ length = "email" -> "name\\?"
           [] data = "" /\ length = "name" -> "\\?\\?\\?\\?"
           [] data = "" /\ length = "email" -> "\\?\\?\\?\\?\\?"
           [] data = "must be valid" /\ length = "is required" -> "must be val"
           [] data = "is required" /\ length = "must be valid" -> "is required\\?\\?"
           [] data = "" /\ length = "is required" -> "\\?\\?\\?\\?\\?\\?\\?\\?\\?\\?\\?"
           [] data = "" /\ length = "must be valid" -> "\\?\\?\\?\\?\\?\\?\\?\\?\\?\\?\\?\\?\\?"

\* The strings whose length runs past their data: reading one reads the
\* memory that follows, and faults when that memory is not mapped.
OverLong ==
    { "name\\?", "\\?\\?\\?\\?", "\\?\\?\\?\\?\\?", "is required\\?\\?", "\\?\\?\\?\\?\\?\\?\\?\\?\\?\\?\\?", "\\?\\?\\?\\?\\?\\?\\?\\?\\?\\?\\?\\?\\?" }

\* The two words of the string s.
Words(s) == [data |-> s, len |-> s]

\* The string two words make.
WordsString(words) == TornString(words.data, words.len)

\* Caller p is between its first step and its last.
MidChain(p) == ~ (rpc[p] = "field" /\ rTodo[p] = AllWords) /\ rpc[p] # "done"

\* Caller p is inside Field or inside Err.
MidCall(p) == MidChain(p) /\ ~ (rpc[p] = "err" /\ rTodo[p] = AllWords)

\* Whether the calls have been interleaved or have overlapped, once caller
\* p has run a step.
StepBy(p) ==
    /\ rInterleaved' = (rInterleaved \/ \E q \in Procs \ {p} : MidChain(q))
    /\ rOverlapped' = (rOverlapped \/ \E q \in Procs \ {p} : MidCall(q))

\* Two goroutines are handed the same *ValidationError; each is about to run
\* e.Field(f).Err(m) with a field and a message of its own.
StartCallers ==
    /\ pc = "ready"
    /\ \E validations \in ValidationLists :
          /\ verr' = NewValidationError(<<"validation failed">>, validations)
          /\ rVal' = [k \in DOMAIN MapSetAll(EmptyMap, validations) |->
                        Words(MapSetAll(EmptyMap, validations)[k])]
    /\ \E f \in [Procs -> FieldNames], m \in [Procs -> ValidationTexts] :
          /\ rField' = f
          /\ rMsg' = m
    /\ rpc' = [p \in Procs |-> "field"]
    /\ rTodo' = [p \in Procs |-> AllWords]
    /\ rWords' = Words("")
    /\ rRead' = [p \in Procs |-> Words("")]
    /\ rInterleaved' = FALSE
    /\ rOverlapped' = FALSE
    /\ op' = "FieldErr"
    /\ pc' = "racing"
    /\ UNCHANGED << verrs, supplied, steps, hasValidations, raceConstant >>

\* Caller p runs e.Field(f), line 40: it stores one of the two words of
\* tmpField, and returns when both are stored.
CallerField(p) ==
    /\ pc = "racing"
    /\ rpc[p] = "field"
    /\ \E w \in rTodo[p] :
          /\ rWords' = StoreWord(rWords, w, rField[p])
          /\ verr' = Field(verr, WordsString(StoreWord(rWords, w, rField[p])))
          /\ rTodo' = [rTodo EXCEPT ![p] = IF @ = {w} THEN AllWords ELSE @ \ {w}]
          /\ rpc' = [rpc EXCEPT ![p] = IF rTodo[p] = {w} THEN "err" ELSE "field"]
    /\ StepBy(p)
    /\ UNCHANGED << pc, op, rField, rMsg, rRead, rVal, verrs, supplied, steps,
                    hasValidations, raceConstant >>

\* Caller p runs .Err(m) on what Field returned, the shared object: line 46
\* first loads the two words of tmpField, one at a time.
CallerErrLoad(p) ==
    /\ pc = "racing"
    /\ rpc[p] = "err"
    /\ \E w \in rTodo[p] :
          /\ rRead' = [rRead EXCEPT ![p] = StoreWord(@, w, rWords[w])]
          /\ rTodo' = [rTodo EXCEPT ![p] = @ \ {w}]
          /\ rpc' = [rpc EXCEPT ![p] = IF rTodo[p] = {w} THEN "assign" ELSE "err"]
    /\ StepBy(p)
    /\ UNCHANGED << pc, op, verr, rField, rMsg, rWords, rVal, verrs, supplied, steps,
                    hasValidations, raceConstant >>

\* Line 46, the map assignment: the runtime finds the slot of the key Err
\* read, or makes one that holds the empty string.
CallerErrAssign(p) ==
    /\ pc = "racing"
    /\ rpc[p] = "assign"
    /\ LET key == WordsString(rRead[p])
       IN  IF key \in DOMAIN rVal
           THEN UNCHANGED << verr, rVal >>
           ELSE /\ rVal' = [k \in DOMAIN rVal \cup {key} |->
                               IF k = key THEN Words("") ELSE rVal[k]]
                /\ verr' = AddValidation(verr, key, "")
    /\ rpc' = [rpc EXCEPT ![p] = "value"]
    /\ rTodo' = [rTodo EXCEPT ![p] = AllWords]
    /\ StepBy(p)
    /\ UNCHANGED << pc, op, rField, rMsg, rWords, rRead, verrs, supplied, steps,
                    hasValidations, raceConstant >>

\* Line 46, the store into the slot: the two words of the text, one at a
\* time; Err returns when both are stored.
CallerErr(p) ==
    /\ pc = "racing"
    /\ rpc[p] = "value"
    /\ \E w \in rTodo[p] :
          LET key == WordsString(rRead[p])
              words == StoreWord(rVal[key], w, rMsg[p])
          IN  /\ rVal' = [rVal EXCEPT ![key] = words]
              /\ verr' = AddValidation(verr, key, WordsString(words))
              /\ rTodo' = [rTodo EXCEPT ![p] = @ \ {w}]
              /\ rpc' = [rpc EXCEPT ![p] = IF rTodo[p] = {w} THEN "done" ELSE "value"]
    /\ StepBy(p)
    /\ UNCHANGED << pc, op, rField, rMsg, rWords, rRead, verrs, supplied, steps,
                    hasValidations, raceConstant >>

\* The process dies inside the map assignment: the runtime found the two
\* callers in it at the same time ("fatal error: concurrent map writes"),
\* or the key has a length that runs past its data into memory that is not
\* mapped.
RaceCrash ==
    /\ pc = "racing"
    /\ \/ \A p \in Procs : rpc[p] = "assign"
       \/ \E p \in Procs : rpc[p] = "assign" /\ WordsString(rRead[p]) \in OverLong
    /\ rpc' = [p \in Procs |-> "crashed"]
    /\ rTodo' = [p \in Procs |-> {}]
    /\ rInterleaved' = TRUE
    /\ rOverlapped' = TRUE
    /\ UNCHANGED << pc, op, verr, rField, rMsg, rWords, rRead, rVal, verrs, supplied,
                    steps, hasValidations, raceConstant >>

\* Both callers have returned, or the process is gone.
CallersDone ==
    /\ pc = "racing"
    /\ \/ \A p \in Procs : rpc[p] = "done"
       \/ \A p \in Procs : rpc[p] = "crashed"
    /\ pc' = "done"
    /\ UNCHANGED << op, verr, verrs, supplied, steps, hasValidations, raceVars,
                    raceConstant >>

NextRace ==
    \/ StartCallers
    \/ \E p \in Procs : CallerField(p)
    \/ \E p \in Procs : CallerErrLoad(p)
    \/ \E p \in Procs : CallerErrAssign(p)
    \/ \E p \in Procs : CallerErr(p)
    \/ RaceCrash
    \/ CallersDone
    \/ Return

SpecRace == Init /\ [][NextRace]_vars

\* ------------------------------------------------------------- properties

\* t occurs in s as a contiguous run of tokens.
Contains(s, t) ==
    \E i \in 0..(Len(s) - Len(t)) : SubSeq(s, i + 1, i + Len(t)) = t

HasKind(err, kind) == As(err, kind) # 0

\* The node errors.As finds for the kind, and the error starting at it.
Found(err, kind) == err[As(err, kind)]
FoundError(err, kind) == SubSeq(err, As(err, kind), Len(err))

Returned(name) == pc = "done" /\ op = name

Handled == pc = "done" /\ op \in {"ErrorHandler", "ErrorHandlerPlain"}

\* C1 as stated: whenever the unwrap chain of err contains a ValidationErrors,
\* NewResponseError(status, err) has code "VALIDATION", the validation summary
\* as message and the validation list as details, also when the
\* ValidationErrors is the cause of a domain error.
C1_ValidationRuleFirst ==
    (Returned("NewResponseError") /\ HasKind(inErr, "validation")) =>
        /\ respErr.Code = "VALIDATION"
        /\ respErr.Message = ValidationErrorsError(Found(inErr, "validation"))
        /\ respErr.Details = Validations(Found(inErr, "validation"))

\* C1 amended: the domain-error rule is applied first.  With a
\* ValidationErrors and no domain error in the chain the result has code
\* "VALIDATION", the validation summary and the validation list; with a
\* ValidationErrors wrapped as the cause of a domain error the result has that
\* domain error's code and formatted message.
C1_DomainRuleFirst ==
    (Returned("NewResponseError") /\ HasKind(inErr, "validation")) =>
        IF HasKind(inErr, "domain")
        THEN /\ respErr.Code = Found(inErr, "domain").code
             /\ respErr.Message = String(Found(inErr, "domain"))
        ELSE /\ respErr.Code = "VALIDATION"
             /\ respErr.Message = ValidationErrorsError(Found(inErr, "validation"))
             /\ respErr.Details = Validations(Found(inErr, "validation"))

C1_Witness ==
    /\ Returned("NewResponseError")
    /\ HasKind(inErr, "validation")
    /\ HasKind(inErr, "domain")
    /\ respErr.Code = "BAD_INPUT"
    /\ respErr.Message = <<"bad input">>
    /\ respErr.Cause = <<"validation failed">>

\* C2: ErrorHandler passes an error that is or wraps an HTTPError h through
\* unchanged: the status written is h.Status and the body under "error" has
\* code = h.Slug, message = h.Message, status_code = h.Status and details =
\* h.Details (the key left out when h has none).
C2_HTTPErrorPassThrough ==
    (Handled /\ HasKind(inErr, "http")) =>
        LET h == Found(inErr, "http") IN
        /\ response.status = h.status
        /\ response.error.code = h.code
        /\ response.error.message = h.msg
        /\ response.error.status_code = h.status
        /\ IF h.details = <<>>
           THEN "details" \notin DOMAIN response.error
           ELSE response.error.details = h.details

C2_Witness ==
    /\ Returned("ErrorHandler")
    /\ Len(inErr) > 1
    /\ HasKind(inErr, "http")
    /\ response.status = StatusUnprocessableEntity
    /\ response.error.code = "validation"
    /\ response.error.details = <<"field1 is required">>

\* C3: for an err whose unwrap chain contains a domain error e (the one
\* errors.As finds), NewResponseError(status, err) has Status = status, Code =
\* e.Code(), Message = e.String() without the cause text, Details =
\* e.Details() and Cause = the text of e's cause, empty when e has none.
C3_DomainErrorFields ==
    (Returned("NewResponseError") /\ HasKind(inErr, "domain")) =>
        LET e == FoundError(inErr, "domain") IN
        /\ respErr.Status = inStatus
        /\ respErr.Code = Head(e).code
        /\ respErr.Message = Sprintf(Head(e).msg, Head(e).args)
        /\ respErr.Details = Head(e).details
        /\ IF Tail(e) = Nil
           THEN respErr.Cause = <<>> /\ respErr.Message = Error(e)
           ELSE /\ respErr.Cause = Error(Tail(e))
                /\ respErr.Message \o <<": ">> \o respErr.Cause = Error(e)

C3_Witness ==
    /\ Returned("NewResponseError")
    /\ Len(inErr) = 3
    /\ inErr[1].kind = "wrap"
    /\ inErr[2].kind = "domain"
    /\ respErr.Code = "USER_NOT_FOUND"
    /\ respErr.Message = <<"user with ID ", "203", " not found">>
    /\ respErr.Cause = <<"boom">>

\* C4: for an err with neither a domain error nor a ValidationErrors anywhere
\* in its unwrap chain, NewResponseError(status, err) has Code "UNKNOWN", the
\* fixed fallback Message, Cause = err.Error(), no Details and Status =
\* status; the Message is the same for every such err.
C4_UnknownFallback ==
    (/\ Returned("NewResponseError")
     /\ ~HasKind(inErr, "domain")
     /\ ~HasKind(inErr, "validation")) =>
        /\ respErr.Code = "UNKNOWN"
        /\ respErr.Message = UnknownMessage
        /\ respErr.Cause = Error(inErr)
        /\ respErr.Details = <<>>
        /\ respErr.Status = inStatus
        /\ ~Contains(respErr.Message, Error(inErr))
        /\ \A other \in Errors :
              (~HasKind(other, "domain") /\ ~HasKind(other, "validation")) =>
                  NewResponseError(inStatus, other).Message = respErr.Message

C4_Witness ==
    /\ Returned("NewResponseError")
    /\ Len(inErr) = 2
    /\ inErr[1].kind = "wrap"
    /\ inErr[2].kind = "plain"
    /\ respErr.Code = "UNKNOWN"
    /\ respErr.Cause = <<"handler", ": ", "db: connection refused">>

\* An error that is no HTTP-shaped error, validation error or domain error.
IsUnknownError(err) ==
    /\ ~HasKind(err, "http")
    /\ ~HasKind(err, "fiber")
    /\ ~HasKind(err, "validation")
    /\ ~HasKind(err, "domain")

\* C5: for an unknown error returned by a handler, the response of
\* ErrorHandler has status 500 and a message that does not contain the
\* error's text, and every unknown error gets the same message.
C5_UnknownErrorsDoNotLeak ==
    (Handled /\ IsUnknownError(inErr)) =>
        /\ response.status = StatusInternalServerError
        /\ ~Contains(response.error.message, Error(inErr))
        /\ \A other \in Errors :
              IsUnknownError(other) =>
                  ErrorHandler(other).error.message = response.error.message

\* C6: ErrorHandler answers every error that is neither a fiber.Error nor an
\* HTTPError (as errors.As finds them) with status 500 and code
\* "unknown-error".
C6_UnknownErrorIs500 ==
    /\ (/\ Returned("ErrorHandler")
        /\ ~HasKind(inErr, "fiber")
        /\ ~HasKind(inErr, "http")) =>
            /\ response.status = StatusInternalServerError
            /\ response.error.status_code = StatusInternalServerError
            /\ response.error.code = "unknown-error"
    /\ (Returned("ErrorHandlerPlain") /\ ~HasKind(inErr, "http")) =>
            /\ response.status = StatusInternalServerError
            /\ response.error.status_code = StatusInternalServerError
            /\ response.error.code = "unknown-error"

C6_Witness ==
    /\ Returned("ErrorHandler")
    /\ HasKind(inErr, "validation")
    /\ HasKind(inErr, "domain")
    /\ response.status = StatusInternalServerError
    /\ response.error.code = "unknown-error"

\* C7: NewHTTPError(status, slug, err) puts 500 for status 0, "unknown-error"
\* for an empty slug and the message "unknown error" for a nil err, and keeps
\* every argument that is set; no HTTPError built by it or by an HTTP*Error
\* helper has Status 0 or an empty Slug, and a nil err gives a message.
C7_NewHTTPErrorDefaults ==
    /\ Returned("NewHTTPError") =>
        /\ httpErr.status = (IF inStatus = 0 THEN StatusInternalServerError ELSE inStatus)
        /\ httpErr.code = (IF inSlug = "" THEN "unknown-error" ELSE inSlug)
        /\ httpErr.msg = (IF inErr = Nil THEN <<"unknown error">> ELSE Error(inErr))
    /\ (pc = "done" /\ op \in HelperNames \cup {"NewHTTPError"}) =>
        /\ httpErr.status # 0
        /\ httpErr.code # ""
        /\ inErr = Nil => httpErr.msg = <<"unknown error">>

C7_Witness ==
    /\ Returned("NewHTTPError")
    /\ inStatus = 0
    /\ inSlug = ""
    /\ inErr = Nil
    /\ httpErr.status = StatusInternalServerError
    /\ httpErr.code = "unknown-error"
    /\ httpErr.msg = <<"unknown error">>

\* The unwrap chain of err has a validation error that carries validations.
HasFieldValidations(err) ==
    HasKind(err, "validation") /\ Validations(Found(err, "validation")) # <<>>

\* C8 as stated: the details of a response error produced by NewHTTPError or
\* NewResponseError are non-empty only if the unwrap chain of the source
\* error contains a validation error that carries validations.
C8_DetailsOnlyFromValidation ==
    /\ (pc = "done" /\ op \in HelperNames \cup {"NewHTTPError"}) =>
          (httpErr.details # <<>> => (inErr # Nil /\ HasFieldValidations(inErr)))
    /\ Returned("NewResponseError") =>
          (respErr.Details # <<>> => HasFieldValidations(inErr))

\* C8 amended: the details of an HTTPError produced by NewHTTPError are
\* non-empty only if the chain of the source error contains a validation
\* error that carries validations, and the details key is in its JSON exactly
\* when they are non-empty; the details of a ResponseError produced by
\* NewResponseError are non-empty only if the chain contains such a
\* validation error or the domain error found in it carries a detail list.
C8_DetailsFromValidationOrDomain ==
    /\ (pc = "done" /\ op \in HelperNames \cup {"NewHTTPError"}) =>
          /\ httpErr.details # <<>> => (inErr # Nil /\ HasFieldValidations(inErr))
          /\ ("details" \in DOMAIN MarshalHTTPError(httpErr)) <=> (httpErr.details # <<>>)
    /\ Returned("NewResponseError") =>
          (respErr.Details # <<>> =>
              \/ HasFieldValidations(inErr)
              \/ /\ HasKind(inErr, "domain")
                 /\ Found(inErr, "domain").details # <<>>)

C8_Witness ==
    /\ Returned("NewResponseError")
    /\ ~HasKind(inErr, "validation")
    /\ respErr.Code = "CUSTOM_ERROR"
    /\ respErr.Details = <<"detail1", "detail2">>

\* C9: when the validator returns a ValidationErrors v, ParseRequestBody
\* returns an HTTPError with Status 400, Slug "request-validation" and Details
\* equal to the whole validation list of v; HTTPUnprocessableEntityError gives
\* the same details with Status 422.
C9_ValidationDetailsPreserved ==
    /\ (/\ Returned("ParseRequestBody")
        /\ inParseErr = Nil
        /\ inErr # Nil
        /\ HasKind(inErr, "validation")) =>
            /\ Len(retErr) = 1
            /\ retErr[1].kind = "http"
            /\ retErr[1].status = StatusBadRequest
            /\ retErr[1].code = "request-validation"
            /\ retErr[1].details = Validations(Found(inErr, "validation"))
    /\ (/\ Returned("HTTPUnprocessableEntityError")
        /\ inErr # Nil
        /\ HasKind(inErr, "validation")) =>
            /\ httpErr.status = StatusUnprocessableEntity
            /\ httpErr.details = Validations(Found(inErr, "validation"))

C9_Witness ==
    /\ Returned("ParseRequestBody")
    /\ inParseErr = Nil
    /\ Len(inErr) > 1
    /\ HasKind(inErr, "validation")
    /\ retErr[1].status = StatusBadRequest
    /\ retErr[1].details = <<"Name is required", "Email must be valid">>

\* C10: ParseRequestBody parses, then validates, and stops at the first
\* failure: a parse failure gives an HTTPError with Status 400 and Slug
\* "bad-input" and the validator is not called; a parsed body the validator
\* accepts gives nil; a validator failure that is no ValidationErrors is
\* returned as it is.
C10_ParseThenValidate ==
    Returned("ParseRequestBody") =>
        /\ inParseErr # Nil =>
              /\ Len(retErr) = 1
              /\ retErr[1].kind = "http"
              /\ retErr[1].status = StatusBadRequest
              /\ retErr[1].code = "bad-input"
              /\ validatorCalls = 0
        /\ (inParseErr = Nil /\ inErr = Nil) => retErr = Nil
        /\ (inParseErr = Nil /\ inErr # Nil /\ ~HasKind(inErr, "validation")) =>
              retErr = inErr

C10_Witness ==
    /\ Returned("ParseRequestBody")
    /\ inParseErr # Nil
    /\ inErr # Nil
    /\ HasKind(inErr, "validation")
    /\ retErr[1].code = "bad-input"
    /\ validatorCalls = 0


\* ----------------------------------------------- properties of the request

\* A request through LoggerMiddleware has been answered.
RequestDone == pc = "done" /\ op = "LoggerMiddleware"

\* The records of the log sink that the middleware wrote for the request.
MiddlewareRecords == SelectSeq(logRecords, LAMBDA r : "request_id" \in DOMAIN r)

\* C11: for every handler outcome (nil, HTTPError, fiber.Error, unknown
\* error, failure of the error handler) the LoggerMiddleware + ErrorHandler
\* chain has written exactly one record to the log sink when the request is
\* answered.
C11_OneRecordPerRequest ==
    RequestDone => Len(logRecords) = 1

\* C12: when a request is answered, the status in the response group of the
\* middleware's record is the status on the response sent to the client,
\* also when the error handler the middleware ran returned an error and the
\* middleware handed that error to the framework.
C12_LoggedStatusIsWrittenStatus ==
    RequestDone =>
        /\ Len(MiddlewareRecords) >= 1
        /\ MiddlewareRecords[1].response.status = respStatus

\* The error handler failed inside the middleware, the framework ran it a
\* second time, and the record and the response both say 500.
C12_Witness ==
    /\ RequestDone
    /\ inErr # Nil
    /\ As(inErr, "http") # 0
    /\ ErrorHandlerError(inErr).status = StatusConflict
    /\ mwErr = JSONError
    /\ errHandlerCalls = 2
    /\ MiddlewareRecords[1].response.status = StatusInternalServerError
    /\ respStatus = StatusInternalServerError

\* A request through the middleware of either constructor is answered.
AnyRequestDone == pc = "done" /\ op \in Constructors

\* C13 as stated: the level of the middleware's record follows the final
\* status of the response alone: INFO below 400, WARN from 400 to 499, ERROR
\* from 500 on, for every request, whether or not the handler returned an
\* error.
C13_LevelFollowsStatus ==
    AnyRequestDone =>
        MiddlewareRecords[1].level =
            IF respStatus < StatusBadRequest THEN "INFO"
            ELSE IF respStatus < StatusInternalServerError THEN "WARN"
            ELSE "ERROR"

\* C13: the level of the middleware's record follows the final status of
\* the response and the configuration: the configured DefaultLevel below
\* 400, which is INFO for LoggerMiddleware, WARN from 400 to 499, ERROR from
\* 500 on, whether or not the handler returned an error.
C13_LevelFollowsStatusAndDefault ==
    AnyRequestDone =>
        /\ op = "LoggerMiddleware" => config.DefaultLevel = "INFO"
        /\ MiddlewareRecords[1].level =
               IF respStatus < StatusBadRequest THEN config.DefaultLevel
               ELSE IF respStatus < StatusInternalServerError THEN "WARN"
               ELSE "ERROR"

\* A middleware configured with DefaultLevel DEBUG has logged a request
\* that ended with 200 at DEBUG.
C13_Witness ==
    /\ AnyRequestDone
    /\ op = "LoggerMiddlewareWithConfig"
    /\ config.DefaultLevel = "DEBUG"
    /\ inErr = Nil
    /\ respStatus = StatusOK
    /\ MiddlewareRecords[1].level = "DEBUG"
    /\ MiddlewareRecords[1].msg = <<"request succeeded">>

\* C14 as stated: the request identifier is the inbound X-Request-Id header
\* when that is not empty and a fresh identifier otherwise, and that one
\* identifier is the X-Request-ID response header, the value stored in the
\* request context, the request_id of the request-scoped logger and the
\* request_id of the record the middleware writes.
C14_RequestIdCorrelation ==
    (op = "LoggerMiddleware" /\ pc # "ready") =>
        /\ reqHeaderId # "" => requestID = reqHeaderId
        /\ reqHeaderId = "" => requestID \in FreshIDs
        /\ respHeaderRequestID = requestID
        /\ ctxRequestID = requestID
        /\ loggerRequestID = requestID
        /\ \A i \in 1..Len(MiddlewareRecords) :
              MiddlewareRecords[i].request_id = requestID
        /\ RequestDone => Len(MiddlewareRecords) = 1

\* The handler set an X-Request-Id response header of its own.
HandlerSetRequestID == \E k \in DOMAIN handlerHeaders : ToLower(k) = ToLower(RequestIDHeaderKey)

\* C14: the request identifier is the inbound X-Request-Id header when that
\* is not empty and a fresh identifier otherwise; it is the value stored in
\* the request context, the request_id of the request-scoped logger and the
\* request_id attribute the middleware puts in its record, and it is the
\* X-Request-ID response header when the handlers run and, unless a handler
\* set that header itself, when the request is answered.
C14_RequestIdCorrelationUnlessHandlerSets ==
    (op = "LoggerMiddleware" /\ pc # "ready") =>
        /\ reqHeaderId # "" => requestID = reqHeaderId
        /\ reqHeaderId = "" => requestID \in FreshIDs
        /\ pc = "mw_next" => respHeaderRequestID = requestID
        /\ ~HandlerSetRequestID => respHeaderRequestID = requestID
        /\ HandlerSetRequestID =>
               respHeaderRequestID = HeaderGet(handlerHeaders, RequestIDHeaderKey)
        /\ respHeaderRequestID = HeaderGet(respHeaders, RequestIDHeaderKey)
        /\ ctxRequestID = requestID
        /\ loggerRequestID = requestID
        /\ \A i \in 1..Len(MiddlewareRecords) :
              MiddlewareRecords[i].request_id = requestID
        /\ RequestDone => Len(MiddlewareRecords) = 1

\* A request that carried its own identifier has been answered and logged
\* under it, although its handler stored a request_id attribute of its own.
C14_Witness ==
    /\ RequestDone
    /\ reqHeaderId = "req-42"
    /\ ~HandlerSetRequestID
    /\ respHeaderRequestID = "req-42"
    /\ Len(MiddlewareRecords) = 1
    /\ MiddlewareRecords[1].request_id = "req-42"
    /\ MiddlewareRecords[1].custom = << Attr("request_id", "forged") >>

\* C15: in the middleware's record each of email, company and permissions
\* is the value stored in the request context when one is stored (for email
\* and company: as a string), and "unknown" when none is stored.
C15_UserFieldsDefaultUnknown ==
    RequestDone =>
        LET user == MiddlewareRecords[1].user
            email == userCtx[CtxKeyUserEmail]
            company == userCtx[CtxKeyUserCompany]
            permissions == userCtx[CtxKeyUserPermissions]
        IN  /\ email.type = "string" => user.email = email.val
            /\ email.type = "nil" => user.email = <<"unknown">>
            /\ company.type = "string" => user.company = company.val
            /\ company.type = "nil" => user.company = <<"unknown">>
            /\ permissions.type # "nil" => user.permissions = SprintfV(permissions)
            /\ permissions.type = "nil" => user.permissions = <<"unknown">>

\* ------------------------------------- properties of the validation errors

\* C16: whatever construction and builder calls came before, HasValidations()
\* answers true exactly when the error has been given at least one
\* validation, which is exactly when it holds at least one.
C16_HasValidationsIffNonEmpty ==
    /\ (pc = "done" /\ op = "ValidationError") =>
          /\ hasValidations <=> supplied > 0
          /\ hasValidations <=> (\E field \in FieldNames : field \in DOMAIN verr.validations)
    /\ (pc = "done" /\ op = "ValidationErrors") =>
          /\ hasValidations <=> supplied > 0
          /\ hasValidations <=> Validations(verrs[1]) # <<>>

\* An error built empty that received two validations for the same field
\* through Field().Err() and AddValidation holds one entry and answers true.
C16_Witness ==
    /\ pc = "done"
    /\ op = "ValidationError"
    /\ steps = MaxCalls
    /\ supplied = 2
    /\ DOMAIN verr.validations = { "name" }
    /\ verr.tmpField = "name"
    /\ hasValidations

\* ------------------------------------------- properties of the domain Error

\* C17: Error() is String() when the error has no cause and String(), ": "
\* and the cause's Error() when it has one; Cause() is the cause's text, or
\* empty without a cause; errors.Unwrap gives back the very error the latest
\* WrapCause was given, nil after WrapCause(nil) or without any WrapCause;
\* Code() is the code NewErrorf was given.
C17_ErrorAccessors ==
    (pc = "done" /\ op = "Error") =>
        /\ outString = Sprintf(Head(derr).msg, Head(derr).args)
        /\ lastCause = Nil => outError = outString
        /\ lastCause # Nil => outError = outString \o <<": ">> \o Error(lastCause)
        /\ outCause = IF lastCause = Nil THEN <<>> ELSE Error(lastCause)
        /\ outUnwrap = lastCause
        /\ outCode = ctorCode

\* An error that was given a cause and then WrapCause(nil) reads as an error
\* without cause.
C17_Witness ==
    /\ pc = "done"
    /\ op = "Error"
    /\ calls = 2
    /\ lastCause = Nil
    /\ Head(derr).details = <<"Name is required">>
    /\ outUnwrap = Nil
    /\ outCause = <<>>
    /\ outError = <<"this is a simple error">>
    /\ outCode = "SIMPLE_ERROR"

\* C18: when the sentinel was declared with a one-argument format and no
\* arguments, and only request handlers have touched it, each with
\* S.WithArgs(a) coerced by NewResponseError, the message of the response to
\* a request is the format applied to that request's argument alone.
C18_WithArgsIndependentAcrossRequests ==
    (/\ pc = "done"
     /\ op = "WithArgs"
     /\ ctorCode = "USER_NOT_FOUND"
     /\ calls = requests) =>
        respErr.Message = <<"user with ID ", reqArg, " not found">>

\* ---------------------------------------------- properties of the registry

GetReturned == pc = "done" /\ op = "Get"

\* The registered errors in err's tree, in the order errors.As visits it.
RegisteredIn(err) ==
    SelectSeq(PreOrder(err), LAMBDA n : n \in DOMAIN registry)

\* C19: for a non-nil err that holds no ResponseError and no registered
\* error anywhere in its tree, Get returns a new ResponseError, leaves the
\* registry as it was, and the response has message err.Error() and is the
\* validation default (ERR-V001, 422, details = err's validations) when err
\* itself has a non-empty Validations() and the internal default (ERR-I000,
\* 500, no details) otherwise.
C19_GetFallback ==
    (/\ GetReturned
     /\ TreeAs(inTree, "response") = NilTree
     /\ RegisteredIn(inTree) = <<>>) =>
        /\ getFrom = "new"
        /\ getOut.kind = "response"
        /\ getOut.msg = TreeError(inTree)
        /\ getOut \notin { registry[k] : k \in DOMAIN registry }
        /\ IF inTree.kind = "validation" /\ DOMAIN inTree.vals # {}
           THEN /\ getOut.code = ErrV001
                /\ getOut.status = StatusUnprocessableEntity
                /\ getOut.vals = inTree.vals
           ELSE /\ getOut.code = ErrI000
                /\ getOut.status = StatusInternalServerError
                /\ DOMAIN getOut.vals = {}

\* A validation error that wraps an unregistered error gets the validation
\* default while another error is registered.
C19_Witness ==
    /\ GetReturned
    /\ ErrExample \in DOMAIN registry
    /\ inTree.kind = "validation"
    /\ inTree.sub = << ErrOther >>
    /\ getFrom = "new"
    /\ getOut.code = ErrV001
    /\ getOut.status = StatusUnprocessableEntity
    /\ getOut.category = "validation"
    /\ DOMAIN getOut.vals = { "email" }
    /\ getOut.msg = <<"invalid input", ": ", "connection refused">>

\* C20: for an err that holds no ResponseError and whose tree holds a
\* registered error at any depth, Get returns the response registered for
\* the first registered error of the tree, with its code and status.
C20_GetUnwrapsRecursively ==
    (/\ GetReturned
     /\ TreeAs(inTree, "response") = NilTree
     /\ RegisteredIn(inTree) # <<>>) =>
        /\ getFrom = "registry"
        /\ getOut.code = registry[RegisteredIn(inTree)[1]].code
        /\ getOut.status = registry[RegisteredIn(inTree)[1]].status
        /\ getOut.sub = << RegisteredIn(inTree)[1] >>

\* C21: once the Add calls have built the registry, no sequence of Get
\* calls, with no setter called on what they return, changes a registered
\* ResponseError: each keeps the code, status,
\* message and details it was registered with, so its message stays the
\* Error() of its sentinel and its details stay empty.
C21_RegistryReadOnly ==
    ~setterCalled =>
        /\ registry = registered
        /\ \A k \in DOMAIN registry :
              /\ registry[k].msg = TreeError(k)
              /\ DOMAIN registry[k].vals = {}

\* C26: for every registry and every non-nil err, a join with a registered
\* member in last position included, Get returns without panicking and
\* what it returns is a non-nil ResponseError.
C26_GetTotal ==
    GetReturned =>
        /\ getFrom # "panic"
        /\ getOut # NilTree
        /\ getOut.kind = "response"

\* C27: when Get is called twice in a row with the same error on the same
\* registry, the second response has the code, status, message and details
\* of the first.
C27_GetIdempotent ==
    (/\ GetReturned
     /\ ~setterCalled
     /\ prevTree = inTree
     /\ prevFrom # "panic"
     /\ getFrom # "panic") =>
        /\ getOut.code = prevOut.code
        /\ getOut.status = prevOut.status
        /\ getOut.msg = prevOut.msg
        /\ getOut.vals = prevOut.vals

\* ------------------------------------- properties of concurrent requests

BothServed == pc = "done" /\ op = "FiberErrorHandler"

\* The branches of Get that write to the ResponseError they return.
Writes(p) == cMatch[p].branch \in {"direct", "unwrap", "joined"}

\* C22: whatever the interleaving of two requests that call Get on the same
\* registry, the payload each serializes has the message and details Get
\* gives for its own error on the registry as it was built, and the two
\* calls do not write the same ResponseError object.
C22_ConcurrentGetSafe ==
    BothServed =>
        /\ \A p \in Procs :
              /\ cResp[p].message = Get(registered, cErr[p]).out.msg
              /\ cResp[p].details = Get(registered, cErr[p]).out.vals
        /\ ~ (Writes(1) /\ Writes(2) /\ cMatch[1].key = cMatch[2].key)

\* C23: StructTranslated returns nil when every rule passes, and otherwise a
\* ValidationErrors with message "validation failed" whose details hold
\* exactly one message per failing field, each naming the field by its custom
\* tag when it has one and by its declared name otherwise.
FailingFields(s) == SelectSeq(s.fields, LAMBDA f : f.failed # "")

C23_OneMessagePerFailingField ==
    (pc = "done" /\ op = "StructTranslated") =>
        LET failing == FailingFields(inStruct)
        IN  IF failing = <<>> THEN outTranslated = Nil
            ELSE /\ As(outTranslated, "validation") = 1
                 /\ ValidationErrorsError(outTranslated[1]) = <<"validation failed">>
                 /\ Len(Validations(outTranslated[1])) = Len(failing)
                 /\ \A i \in 1..Len(failing) :
                        \E j \in 1..Len(Validations(outTranslated[1])) :
                            Validations(outTranslated[1])[j] =
                                Translation(TagName(failing[i]), failing[i].failed)

\* C24 as stated: for every HTTPError, serializing it and deserializing the
\* result yields an HTTPError with the same Slug, Message, Details and Status.
RoundTripDone == pc = "done" /\ op = "RoundTrip" /\ rtpc = "decoded"

C24_RoundTripLossless ==
    RoundTripDone =>
        /\ decoded.code = rtErr.code
        /\ decoded.msg = rtErr.msg
        /\ decoded.details = rtErr.details
        /\ decoded.status = rtErr.status

ValidUTF8(h) ==
    /\ h.code \notin InvalidUTF8
    /\ \A i \in 1..Len(h.msg) : h.msg[i] \notin InvalidUTF8
    /\ \A i \in 1..Len(h.details) : h.details[i] \notin InvalidUTF8

\* C24, amended: the round trip always keeps the Status and the number of
\* details; it keeps Slug, Message and Details when they are valid UTF-8,
\* and otherwise returns them with every invalid byte replaced by U+FFFD.
C24_RoundTripLosslessForValidUTF8 ==
    RoundTripDone =>
        /\ decoded.status = rtErr.status
        /\ Len(decoded.details) = Len(rtErr.details)
        /\ ValidUTF8(rtErr) => decoded = rtErr
        /\ decoded.code = CoerceToken(rtErr.code)
        /\ decoded.msg = CoerceString(rtErr.msg)
        /\ decoded.details = CoerceString(rtErr.details)

C24_Witness ==
    /\ RoundTripDone
    /\ rtErr.status = StatusNotFound
    /\ rtErr.code = "user-not-found"
    /\ rtErr.msg = <<"user with ID 7 not found">>
    /\ "details" \notin DOMAIN wire
    /\ decoded = rtErr

\* C25: when two callers run Field(f1).Err(m1) and Field(f2).Err(m2), with
\* different fields, on the same ValidationError, every execution in which one
\* caller finishes before the other starts records m1 under f1 and m2 under
\* f2; some interleaving of the four calls records a message under the other
\* caller's field or leaves a field without its entry.
BothCalled == op = "FieldErr" /\ \A p \in Procs : rpc[p] = "done"

\* One caller ran both its calls before the other began.
Sequential == ~rInterleaved

Recorded(p) ==
    /\ rField[p] \in DOMAIN verr.validations
    /\ verr.validations[rField[p]] = rMsg[p]

C25_SequentialFieldErrRecordsBoth ==
    (BothCalled /\ Sequential /\ rField[1] # rField[2]) =>
        \A p \in Procs : Recorded(p)

\* The four calls ran one at a time, none overlapping another, in an order
\* that is not sequential, and both messages went under caller 2's field.
C25_Witness ==
    /\ BothCalled
    /\ ~Sequential
    /\ ~rOverlapped
    /\ rField[1] # rField[2]
    /\ rMsg[1] # rMsg[2]
    /\ rField[1] \notin DOMAIN verr.validations
    /\ verr.validations[rField[2]] = rMsg[1]

\* C28: when a request is answered, the application's error handler has run
\* exactly once if the handler returned an error and not at all if it
\* returned nil.
C28_ErrorHandlerOncePerFailingRequest ==
    RequestDone => errHandlerCalls = (IF inErr # Nil THEN 1 ELSE 0)

\* C29: the record LoggerMiddlewareWithConfig writes has, for every Config,
\* no attribute for a request header whose lower-cased name is authorization,
\* cookie, set-cookie, x-auth-token, x-csrf-token or x-xsrf-token and none
\* for a set-cookie response header, and no header group at all on the side
\* whose WithRequestHeader / WithResponseHeader is false.
ConfiguredDone == pc \in {"mw_return", "done"} /\ op = "LoggerMiddlewareWithConfig"

C29_SensitiveHeadersNeverLogged ==
    ConfiguredDone =>
        \A i \in 1..Len(MiddlewareRecords) :
            LET r == MiddlewareRecords[i]
            IN  /\ "header" \in DOMAIN r.request <=> config.WithRequestHeader
                /\ "header" \in DOMAIN r.response <=> config.WithResponseHeader
                /\ "header" \in DOMAIN r.request =>
                       \A k \in DOMAIN r.request.header :
                           ToLower(k) \notin { ToLower(Authorization), ToLower(Cookie),
                                               ToLower(SetCookie), ToLower(XAuthToken),
                                               ToLower(XCsrfToken), XXsrfTokenLower }
                /\ "header" \in DOMAIN r.response =>
                       \A k \in DOMAIN r.response.header : ToLower(k) # ToLower(SetCookie)

\* A request with the hidden headers in the spellings the server hands
\* over, answered by a handler that set a cookie: the record shows the
\* user agent alone and the response headers without the cookie.
C29_Witness ==
    /\ ConfiguredDone
    /\ config.WithRequestHeader
    /\ config.WithResponseHeader
    /\ AuthorizationUpper \in DOMAIN reqHeaders
    /\ Cookie \in DOMAIN reqHeaders
    /\ XCsrfToken \in DOMAIN reqHeaders
    /\ SetCookie \in DOMAIN respHeaders
    /\ Len(MiddlewareRecords) = 1
    /\ DOMAIN MiddlewareRecords[1].request.header = { UserAgentKey }
    /\ DOMAIN MiddlewareRecords[1].response.header = { ContentTypeKey, RequestIDHeaderKey }

\* C30: an Error on which WithDetails was never called has, after any
\* sequence of WrapCause calls, the validations of the latest cause as its
\* details when that cause unwraps to a ValidationErrors and no details when
\* it does not, and so has the response coerced from it.
CauseValidations(err) ==
    IF As(err, "validation") # 0 THEN Validations(err[As(err, "validation")]) ELSE <<>>

C30_NoStaleDetails ==
    (derr # Nil /\ ~detailsSet) =>
        /\ Head(derr).details = CauseValidations(lastCause)
        /\ Returned("WrapCause") => respErr.Details = CauseValidations(lastCause)

====
